---- MODULE Spec2Model ----
(***************************************************************************)
(* Model of the VBus data layer of resol-vbus: the Data sum type with its  *)
(* logical equality and ordering (src/src/data.rs) and the DataSet         *)
(* collection built on them (src/src/data_set.rs).                         *)
(***************************************************************************)
EXTENDS Integers, Sequences, FiniteSets, TLC

VARIABLES
    left,        \* receiver of eq / partial_cmp (self)
    right,       \* argument of eq / partial_cmp
    eqResult,    \* <<v>> once left.eq(right) returned v, <<>> before the call
    cmpResult,   \* <<v>> once left.partial_cmp(right) returned v, <<>> before
    idResult,    \* <<l, r>> once left.to_id_string() returned l and
                 \* right.to_id_string() returned r, <<>> before
    data_set,    \* the DataSet: [timestamp, set]
    origin,      \* constructor that built data_set: "new" or "from_data"
    onlyAddData, \* TRUE while add_data is the only mutator called so far
    pc,          \* "idle", "returned" (a mutator has just returned) or "panicked"
    lastOp,      \* the mutator that returned last, with its arguments
    prev,        \* data_set as it was when that mutator was called
    inserted,    \* per identity passed to add_data, in the order of the first
                 \* insertions: the Data inserted last, the newest timestamp
                 \* inserted, and whether the timestamps came in order
    specification, \* the Specification: [language, devices, packets]
    iter,        \* <<it>> once fields_in_data_set built the iterator it, else <<>>
    returned,    \* what the last call on the Specification or iterator returned
    before,      \* specification and returned as they were when that call was made
    repeated,    \* TRUE when that call repeats the call before it, arguments included
    yielded,     \* the items next() returned on iter so far, in order
    field_parts, \* the parts of the PacketFieldSpec get_raw_value_i64 is called on
    buf,         \* the byte slice passed to get_raw_value_i64
    overflow_checks, \* TRUE when the build checks integer overflow (debug profile)
    rawResult,   \* <<r>> once get_raw_value_i64 ended with r, <<>> before the call
    flr,         \* the FileListReader: [file_list, file_index, file]; a path is
                 \* modelled by the content of its file, an open File by
                 \* <<[content, pos]>>
    delivered,   \* the bytes the read calls on flr put into their buffers so far
    readReturn,  \* <<r>> once a read call on flr returned r, <<>> before
    borrows,     \* the RefCells of the Specification that are mutably borrowed
    call         \* <<c>> while the call c on the Specification runs: its
                 \* arguments, its next step and its local values; else <<>>

dataVars == <<left, right, eqResult, cmpResult, idResult>>

setVars == <<data_set, origin, onlyAddData, pc, lastOp, prev, inserted>>

cacheVars == <<specification, iter, returned, before, repeated, yielded>>

rawVars == <<field_parts, buf, overflow_checks, rawResult>>

readerVars == <<flr, delivered, readReturn>>

borrowVars == <<borrows, call>>

vars == <<left, right, eqResult, cmpResult, idResult, data_set, origin, onlyAddData, pc, lastOp, prev,
          inserted, specification, iter, returned, before, repeated, yielded,
          field_parts, buf, overflow_checks, rawResult, flr, delivered, readReturn,
          borrows, call>>

(***************************************************************************)
(* Input domains of the Data fields.                                       *)
(***************************************************************************)
Timestamps == {0, 1}
Channels == {17, 18}
DestinationAddresses == {16, 21}
SourceAddresses == {32273, 32290}
ProtocolVersions == {16, 32, 48}
PacketCommands == {256, 512}
DatagramCommands == {1280, 2304}
TelegramCommands == {37, 38}
Param16s == {-1, 1}
Param32s == {0, 1}
FrameCounts == {0, 1}
FrameDatas == {<<0>>, <<1>>}

Headers ==
    [timestamp : Timestamps, channel : Channels,
     destination_address : DestinationAddresses,
     source_address : SourceAddresses,
     protocol_version : ProtocolVersions]

Packets ==
    [variant : {"Packet"}, header : Headers, command : PacketCommands,
     frame_count : FrameCounts, frame_data : FrameDatas]

Datagrams ==
    [variant : {"Datagram"}, header : Headers, command : DatagramCommands,
     param16 : Param16s, param32 : Param32s]

Telegrams ==
    [variant : {"Telegram"}, header : Headers, command : TelegramCommands,
     frame_data : FrameDatas]

DataValues == Packets \cup Datagrams \cup Telegrams

as_header(d) == d.header

(***************************************************************************)
(* impl PartialEq for Data.  The three arms of the match on the variant of *)
(* the left operand are eq_packet, eq_datagram and eq_telegram.            *)
(***************************************************************************)
\* frame_count takes part in the comparison
eq_packet_CmpFrameCount(l, r) ==
    IF r.variant = "Packet"
    THEN IF l.command # r.command THEN FALSE
         ELSE IF l.frame_count # r.frame_count THEN FALSE
         ELSE TRUE
    ELSE FALSE

eq_packet(l, r) ==
    IF r.variant = "Packet"
    THEN IF l.command # r.command THEN FALSE ELSE TRUE
    ELSE FALSE

\* param16 is never compared
eq_datagram_NoParam16(l, r) ==
    IF r.variant = "Datagram"
    THEN IF l.command # r.command THEN FALSE ELSE TRUE
    ELSE FALSE

eq_datagram(l, r) ==
    IF r.variant = "Datagram"
    THEN IF l.command # r.command THEN FALSE
         ELSE IF l.command # 2304 THEN TRUE
         ELSE IF l.param16 # r.param16 THEN FALSE
         ELSE TRUE
    ELSE FALSE

\* the commands are not compared
eq_telegram_IgnoresCommand(l, r) ==
    IF r.variant = "Telegram" THEN TRUE ELSE FALSE

eq_telegram(l, r) ==
    IF r.variant = "Telegram"
    THEN IF l.command # r.command THEN FALSE ELSE TRUE
    ELSE FALSE

eq(l, r) ==
    LET left_header == as_header(l)
        right_header == as_header(r)
    IN  IF left_header.channel # right_header.channel THEN FALSE
        ELSE IF left_header.destination_address # right_header.destination_address THEN FALSE
        ELSE IF left_header.source_address # right_header.source_address THEN FALSE
        ELSE IF left_header.protocol_version # right_header.protocol_version THEN FALSE
        ELSE CASE l.variant = "Packet" -> eq_packet(l, r)
               [] l.variant = "Datagram" -> eq_datagram(l, r)
               [] l.variant = "Telegram" -> eq_telegram(l, r)

(***************************************************************************)
(* impl PartialOrd for Data.  Option<Ordering> is "Less", "Equal",         *)
(* "Greater" for Some(..) and "None" for None.                             *)
(***************************************************************************)
\* a Packet is ordered before the other variants instead of None
cmp_packet_TagOrder(l, r) ==
    IF r.variant = "Packet"
    THEN IF l.command < r.command THEN "Less"
         ELSE IF l.command > r.command THEN "Greater"
         ELSE "Equal"
    ELSE "Less"

cmp_packet(l, r) ==
    IF r.variant = "Packet"
    THEN IF l.command < r.command THEN "Less"
         ELSE IF l.command > r.command THEN "Greater"
         ELSE "Equal"
    ELSE "None"

\* param16 compared as if it were an unsigned 16-bit value
cmp_datagram_Unsigned(l, r) ==
    IF r.variant = "Datagram"
    THEN IF l.command < r.command THEN "Less"
         ELSE IF l.command > r.command THEN "Greater"
         ELSE IF l.command # 2304 THEN "Equal"
         ELSE IF (l.param16 % 65536) < (r.param16 % 65536) THEN "Less"
         ELSE IF (l.param16 % 65536) > (r.param16 % 65536) THEN "Greater"
         ELSE "Equal"
    ELSE "None"

cmp_datagram(l, r) ==
    IF r.variant = "Datagram"
    THEN IF l.command < r.command THEN "Less"
         ELSE IF l.command > r.command THEN "Greater"
         ELSE IF l.command # 2304 THEN "Equal"
         ELSE IF l.param16 < r.param16 THEN "Less"
         ELSE IF l.param16 > r.param16 THEN "Greater"
         ELSE "Equal"
    ELSE "None"

\* the Greater branch of the command comparison is missing
cmp_telegram_NoGreater(l, r) ==
    IF r.variant = "Telegram"
    THEN IF l.command # r.command THEN "Less"
         ELSE "Equal"
    ELSE "None"

cmp_telegram(l, r) ==
    IF r.variant = "Telegram"
    THEN IF l.command < r.command THEN "Less"
         ELSE IF l.command > r.command THEN "Greater"
         ELSE "Equal"
    ELSE "None"

cmp_variant(l, r) ==
    CASE l.variant = "Packet" -> cmp_packet(l, r)
      [] l.variant = "Datagram" -> cmp_datagram(l, r)
      [] l.variant = "Telegram" -> cmp_telegram(l, r)

\* the comparison of protocol_version is missing
partial_cmp_NoVersion(l, r) ==
    LET left_header == as_header(l)
        right_header == as_header(r)
    IN  IF left_header.channel < right_header.channel THEN "Less"
        ELSE IF left_header.channel > right_header.channel THEN "Greater"
        ELSE IF left_header.destination_address < right_header.destination_address THEN "Less"
        ELSE IF left_header.destination_address > right_header.destination_address THEN "Greater"
        ELSE IF left_header.source_address < right_header.source_address THEN "Less"
        ELSE IF left_header.source_address > right_header.source_address THEN "Greater"
        ELSE cmp_variant(l, r)

partial_cmp(l, r) ==
    LET left_header == as_header(l)
        right_header == as_header(r)
    IN  IF left_header.channel < right_header.channel THEN "Less"
        ELSE IF left_header.channel > right_header.channel THEN "Greater"
        ELSE IF left_header.destination_address < right_header.destination_address THEN "Less"
        ELSE IF left_header.destination_address > right_header.destination_address THEN "Greater"
        ELSE IF left_header.source_address < right_header.source_address THEN "Less"
        ELSE IF left_header.source_address > right_header.source_address THEN "Greater"
        ELSE IF left_header.protocol_version < right_header.protocol_version THEN "Less"
        ELSE IF left_header.protocol_version > right_header.protocol_version THEN "Greater"
        ELSE cmp_variant(l, r)

(***************************************************************************)
(* DataSet (src/src/data_set.rs).  A DateTime<UTC> is an integer instant.  *)
(***************************************************************************)
MaxLen == 3          \* most members data_set.set holds in the model
MaxOtherLen == 2     \* longest Vec<Data> handed to from_data / add_data_set

SetTimestamps == {0, 1, 2}

PoolHeader(t, pv) ==
    [timestamp |-> t, channel |-> 17, destination_address |-> 16,
     source_address |-> 32273, protocol_version |-> pv]

PoolPacket(t, pv, fc) ==
    [variant |-> "Packet", header |-> PoolHeader(t, pv), command |-> 256,
     frame_count |-> fc, frame_data |-> <<fc>>]

PoolDatagram(t, p16) ==
    [variant |-> "Datagram", header |-> PoolHeader(t, 32), command |-> 1280,
     param16 |-> p16, param32 |-> 0]

PoolTelegram(t) ==
    [variant |-> "Telegram", header |-> PoolHeader(t, 48), command |-> 37,
     frame_data |-> <<0>>]

\* The Data handed to the DataSet: two frames of one Packet slot, two frames
\* of one Datagram slot, a Telegram, and a Packet whose protocol_version is
\* that of the Datagram slot.
SetPool ==
    {PoolPacket(1, 16, 0), PoolPacket(2, 16, 1),
     PoolDatagram(1, -1), PoolDatagram(2, 1),
     PoolTelegram(0),
     PoolPacket(1, 32, 0)}

DataVecs == UNION {[1..n -> SetPool] : n \in 0..MaxOtherLen}

new(now) == [timestamp |-> now, set |-> <<>>]

from_data(timestamp, set) == [timestamp |-> timestamp, set |-> set]

as_data_slice(ds) == ds.set

\* self.set.iter().position(|d| d.eq(&data)): 0 stands for None
position(set, data) ==
    IF \E i \in 1..Len(set) : eq(set[i], data)
    THEN CHOOSE i \in 1..Len(set) :
             /\ eq(set[i], data)
             /\ \A j \in 1..(i - 1) : ~eq(set[j], data)
    ELSE 0

\* an equal member is removed and the new Data pushed at the end
add_data_MoveToEnd(ds, data) ==
    LET timestamp == as_header(data).timestamp
        index == position(ds.set, data)
        set == IF index # 0
               THEN Append(SubSeq(ds.set, 1, index - 1)
                           \o SubSeq(ds.set, index + 1, Len(ds.set)), data)
               ELSE Append(ds.set, data)
    IN  [timestamp |-> IF ds.timestamp < timestamp THEN timestamp ELSE ds.timestamp,
         set |-> set]

\* a member newer than the new Data is kept
add_data_KeepNewer(ds, data) ==
    LET timestamp == as_header(data).timestamp
        index == position(ds.set, data)
        set == IF index # 0
               THEN IF as_header(ds.set[index]).timestamp > timestamp THEN ds.set
                    ELSE [ds.set EXCEPT ![index] = data]
               ELSE Append(ds.set, data)
    IN  [timestamp |-> IF ds.timestamp < timestamp THEN timestamp ELSE ds.timestamp,
         set |-> set]

\* an equal member is kept as it is
add_data_KeepFirst(ds, data) ==
    LET timestamp == as_header(data).timestamp
        index == position(ds.set, data)
        set == IF index # 0 THEN ds.set ELSE Append(ds.set, data)
    IN  [timestamp |-> IF ds.timestamp < timestamp THEN timestamp ELSE ds.timestamp,
         set |-> set]

\* always pushes: the search for an equal member is missing
add_data_AlwaysPush(ds, data) ==
    LET timestamp == as_header(data).timestamp
    IN  [timestamp |-> IF ds.timestamp < timestamp THEN timestamp ELSE ds.timestamp,
         set |-> Append(ds.set, data)]

\* the timestamp of the DataSet is left as it was
add_data_KeepsTimestamp(ds, data) ==
    LET index == position(ds.set, data)
    IN  [timestamp |-> ds.timestamp,
         set |-> IF index # 0 THEN [ds.set EXCEPT ![index] = data] ELSE Append(ds.set, data)]

add_data(ds, data) ==
    LET timestamp == as_header(data).timestamp
        index == position(ds.set, data)
        set == IF index # 0
               THEN [ds.set EXCEPT ![index] = data]
               ELSE Append(ds.set, data)
    IN  [timestamp |-> IF ds.timestamp < timestamp THEN timestamp ELSE ds.timestamp,
         set |-> set]

\* the members of other are inserted from the last to the first
RECURSIVE add_each_Reversed(_, _)
add_each_Reversed(ds, datas) ==
    IF datas = <<>> THEN ds
    ELSE add_data(add_each_Reversed(ds, Tail(datas)), Head(datas))

RECURSIVE add_each(_, _)
add_each(ds, datas) ==
    IF datas = <<>> THEN ds
    ELSE add_each(add_data(ds, Head(datas)), Tail(datas))

\* the timestamp is taken from the merged set alone
add_data_set_OtherTimestamp(ds, other) ==
    LET timestamp == other.timestamp
        added == add_each(ds, other.set)
    IN  [timestamp |-> IF ds.timestamp < timestamp THEN timestamp ELSE ds.timestamp,
         set |-> added.set]

add_data_set(ds, other) ==
    LET timestamp == other.timestamp
        added == add_each(ds, other.set)
    IN  [timestamp |-> IF added.timestamp < timestamp THEN timestamp ELSE added.timestamp,
         set |-> added.set]

\* the timestamp is lowered to the newest member that is left
remove_data_older_than_LowersTimestamp(ds, min_timestamp) ==
    LET set == SelectSeq(ds.set, LAMBDA data : as_header(data).timestamp >= min_timestamp)
        stamps == {as_header(set[i]).timestamp : i \in 1..Len(set)}
    IN  [timestamp |-> IF stamps = {} THEN 0
                       ELSE CHOOSE t \in stamps : \A u \in stamps : u <= t,
         set |-> set]

\* > in place of >=
remove_data_older_than_Strict(ds, min_timestamp) ==
    [timestamp |-> ds.timestamp,
     set |-> SelectSeq(ds.set, LAMBDA data : as_header(data).timestamp > min_timestamp)]

remove_data_older_than(ds, min_timestamp) ==
    [timestamp |-> ds.timestamp,
     set |-> SelectSeq(ds.set, LAMBDA data : as_header(data).timestamp >= min_timestamp)]

\* the comparator is taken the other way round: the result is descending
RECURSIVE insert_head_Descending(_, _)
insert_head_Descending(x, tail) ==
    IF tail = <<>> THEN [panic |-> FALSE, set |-> <<x>>]
    ELSE LET c == partial_cmp(Head(tail), x)
         IN  IF c = "None" THEN [panic |-> TRUE, set |-> <<>>]
             ELSE IF c = "Greater"
                  THEN LET rest == insert_head_Descending(x, Tail(tail))
                       IN  IF rest.panic THEN rest
                           ELSE [panic |-> FALSE, set |-> <<Head(tail)>> \o rest.set]
                  ELSE [panic |-> FALSE, set |-> <<x>> \o tail]

\* sort_by on a short slice is an insertion sort that inserts each element,
\* from the back, into the sorted tail behind it; the comparator unwraps
\* partial_cmp and so panics when it is None.
RECURSIVE insert_head(_, _)
insert_head(x, tail) ==
    IF tail = <<>> THEN [panic |-> FALSE, set |-> <<x>>]
    ELSE LET c == partial_cmp(Head(tail), x)
         IN  IF c = "None" THEN [panic |-> TRUE, set |-> <<>>]
             ELSE IF c = "Less"
                  THEN LET rest == insert_head(x, Tail(tail))
                       IN  IF rest.panic THEN rest
                           ELSE [panic |-> FALSE, set |-> <<Head(tail)>> \o rest.set]
                  ELSE [panic |-> FALSE, set |-> <<x>> \o tail]

\* the first member is left where it is
RECURSIVE sort_by_KeepsHead(_)
sort_by_KeepsHead(set) ==
    IF Len(set) <= 1 THEN [panic |-> FALSE, set |-> set]
    ELSE LET tail == sort_by_KeepsHead(Tail(set))
         IN  IF tail.panic THEN tail ELSE [panic |-> FALSE, set |-> <<Head(set)>> \o tail.set]

RECURSIVE sort_by(_)
sort_by(set) ==
    IF Len(set) <= 1 THEN [panic |-> FALSE, set |-> set]
    ELSE LET tail == sort_by(Tail(set))
         IN  IF tail.panic THEN tail ELSE insert_head(Head(set), tail.set)

sort(ds) ==
    LET sorted == sort_by(ds.set)
    IN  [panic |-> sorted.panic,
         data_set |-> IF sorted.panic THEN ds
                      ELSE [timestamp |-> ds.timestamp, set |-> sorted.set]]

HeaderTuple(d) ==
    <<d.header.channel, d.header.destination_address,
      d.header.source_address, d.header.protocol_version>>

UsesParam16(d) == d.variant = "Datagram" /\ d.command = 2304

SameIdentity(a, b) ==
    /\ HeaderTuple(a) = HeaderTuple(b)
    /\ a.variant = b.variant
    /\ a.command = b.command
    /\ UsesParam16(a) => a.param16 = b.param16

\* the history of add_data calls after one more call
record_add(history, data) ==
    LET timestamp == data.header.timestamp
        M == {i \in 1..Len(history) : SameIdentity(history[i].last, data)}
    IN  IF M = {}
        THEN Append(history, [last |-> data, newest |-> timestamp, ordered |-> TRUE])
        ELSE [i \in 1..Len(history) |->
                 IF i \in M
                 THEN [last |-> data,
                       newest |-> IF history[i].newest < timestamp THEN timestamp
                                  ELSE history[i].newest,
                       ordered |-> history[i].ordered
                                   /\ history[i].last.header.timestamp <= timestamp]
                 ELSE history[i]]

NoDataSet == [timestamp |-> 0, set |-> <<>>]

NoOp == [op |-> "none"]

NoResult == [kind |-> "none"]

\* no RefCell is borrowed and no call runs
NoCall ==
    /\ borrows = [devices |-> FALSE, packets |-> FALSE]
    /\ call = <<>>

\* no FileListReader has been constructed
NoReader ==
    /\ flr = [file_list |-> <<>>, file_index |-> 0, file |-> <<>>]
    /\ delivered = <<>>
    /\ readReturn = <<>>

\* no Specification has been constructed
NoSpecification ==
    /\ specification = [language |-> "En", devices |-> <<>>, packets |-> <<>>]
    /\ iter = <<>>
    /\ returned = NoResult
    /\ before = [spec |-> specification, result |-> NoResult]
    /\ repeated = FALSE
    /\ yielded = <<>>

\* get_raw_value_i64 is not called
NoFieldSpec ==
    /\ field_parts = <<>>
    /\ buf = <<>>
    /\ overflow_checks = FALSE
    /\ rawResult = <<>>

InitData ==
    /\ left \in DataValues
    /\ right \in DataValues
    /\ eqResult = <<>>
    /\ cmpResult = <<>>
    /\ idResult = <<>>
    /\ data_set = NoDataSet
    /\ origin = "none"
    /\ onlyAddData = TRUE
    /\ pc = "idle"
    /\ lastOp = NoOp
    /\ prev = NoDataSet
    /\ inserted = <<>>
    /\ NoSpecification
    /\ NoFieldSpec
    /\ NoReader
    /\ NoCall

CallEq ==
    /\ eqResult = <<>>
    /\ eqResult' = <<eq(left, right)>>
    /\ UNCHANGED <<left, right, cmpResult, idResult>>
    /\ UNCHANGED setVars
    /\ UNCHANGED cacheVars
    /\ UNCHANGED rawVars
    /\ UNCHANGED readerVars
    /\ UNCHANGED borrowVars

CallPartialCmp ==
    /\ cmpResult = <<>>
    /\ cmpResult' = <<partial_cmp(left, right)>>
    /\ UNCHANGED <<left, right, eqResult, idResult>>
    /\ UNCHANGED setVars
    /\ UNCHANGED cacheVars
    /\ UNCHANGED rawVars
    /\ UNCHANGED readerVars
    /\ UNCHANGED borrowVars

NextData == CallEq \/ CallPartialCmp

SpecData == InitData /\ [][NextData]_vars

(***************************************************************************)
(* The DataSet state machine: a DataSet is constructed by new or           *)
(* from_data, then its mutators are called one after the other.            *)
(***************************************************************************)
InitDataSet ==
    /\ \/ /\ origin = "new"
          /\ \E now \in SetTimestamps : data_set = new(now)
       \/ /\ origin = "from_data"
          /\ \E t \in SetTimestamps, set \in DataVecs : data_set = from_data(t, set)
    /\ onlyAddData = TRUE
    /\ pc = "idle"
    /\ lastOp = NoOp
    /\ prev = data_set
    /\ inserted = <<>>
    /\ NoSpecification
    /\ NoFieldSpec
    /\ NoReader
    /\ NoCall
    /\ left = PoolTelegram(0)
    /\ right = PoolTelegram(0)
    /\ eqResult = <<>>
    /\ cmpResult = <<>>
    /\ idResult = <<>>

Returned(op, result, onlyAdd) ==
    /\ Len(result.set) <= MaxLen
    /\ data_set' = result
    /\ prev' = data_set
    /\ lastOp' = op
    /\ onlyAddData' = (onlyAddData /\ onlyAdd)
    /\ inserted' = IF origin = "new" /\ onlyAddData /\ onlyAdd
                THEN record_add(inserted, op.data)
                ELSE <<>>
    /\ pc' = "returned"
    /\ UNCHANGED origin
    /\ UNCHANGED dataVars
    /\ UNCHANGED cacheVars
    /\ UNCHANGED rawVars
    /\ UNCHANGED readerVars
    /\ UNCHANGED borrowVars

AddData ==
    /\ pc = "idle"
    /\ \E data \in SetPool :
           Returned([op |-> "add_data", data |-> data], add_data(data_set, data), TRUE)

AddDataSet ==
    /\ pc = "idle"
    /\ \E t \in SetTimestamps, set \in DataVecs :
           LET other == from_data(t, set)
           IN  Returned([op |-> "add_data_set", other |-> other],
                        add_data_set(data_set, other), FALSE)

RemoveDataOlderThan ==
    /\ pc = "idle"
    /\ \E min_timestamp \in SetTimestamps :
           Returned([op |-> "remove_data_older_than", min_timestamp |-> min_timestamp],
                    remove_data_older_than(data_set, min_timestamp), FALSE)

Sort ==
    /\ pc = "idle"
    /\ ~sort(data_set).panic
    /\ Returned([op |-> "sort"], sort(data_set).data_set, FALSE)

SortPanics ==
    /\ pc = "idle"
    /\ sort(data_set).panic
    /\ pc' = "panicked"
    /\ lastOp' = [op |-> "sort"]
    /\ prev' = data_set
    /\ onlyAddData' = FALSE
    /\ inserted' = <<>>
    /\ UNCHANGED <<data_set, origin>>
    /\ UNCHANGED dataVars
    /\ UNCHANGED cacheVars
    /\ UNCHANGED rawVars
    /\ UNCHANGED readerVars
    /\ UNCHANGED borrowVars

\* the caller goes on after a mutator returned
Continue ==
    /\ pc = "returned"
    /\ pc' = "idle"
    /\ lastOp' = NoOp
    /\ prev' = data_set
    /\ UNCHANGED <<data_set, origin, onlyAddData, inserted>>
    /\ UNCHANGED dataVars
    /\ UNCHANGED cacheVars
    /\ UNCHANGED rawVars
    /\ UNCHANGED readerVars
    /\ UNCHANGED borrowVars

NextDataSet ==
    \/ AddData
    \/ AddDataSet
    \/ RemoveDataOlderThan
    \/ Sort
    \/ SortPanics
    \/ Continue

SpecDataSet == InitDataSet /\ [][NextDataSet]_vars

(***************************************************************************)
(* Vocabulary of the properties of eq and partial_cmp.                     *)
(***************************************************************************)
\* d with every field the identity ignores overwritten by a fixed value
EraseIgnored(d) ==
    LET h == [d.header EXCEPT !.timestamp = 0]
    IN  CASE d.variant = "Packet" ->
                [d EXCEPT !.header = h, !.frame_count = 0, !.frame_data = <<>>]
          [] d.variant = "Datagram" ->
                IF d.command = 2304
                THEN [d EXCEPT !.header = h, !.param32 = 0]
                ELSE [d EXCEPT !.header = h, !.param32 = 0, !.param16 = 0]
          [] d.variant = "Telegram" ->
                [d EXCEPT !.header = h, !.frame_data = <<>>]

OrderKey(d) ==
    <<d.header.channel, d.header.destination_address, d.header.source_address,
      d.header.protocol_version, d.command>>
    \o (IF UsesParam16(d) THEN <<d.param16>> ELSE <<>>)

RECURSIVE LexCompare(_, _)
LexCompare(s, t) ==
    IF s = <<>> \/ t = <<>> THEN "Equal"
    ELSE IF Head(s) < Head(t) THEN "Less"
    ELSE IF Head(s) > Head(t) THEN "Greater"
    ELSE LexCompare(Tail(s), Tail(t))

WellFormed(d) ==
    \/ d.variant = "Packet" /\ d.header.protocol_version \div 16 = 1
    \/ d.variant = "Datagram" /\ d.header.protocol_version \div 16 = 2
    \/ d.variant = "Telegram" /\ d.header.protocol_version \div 16 = 3

WellFormedValues == {d \in DataValues : WellFormed(d)}

\* C1: a.eq(b) is true exactly when a and b have the same header tuple, the
\* same variant, the same command and, for Datagrams with command 0x0900
\* only, the same param16; a difference in channel, destination_address,
\* source_address, protocol_version or command makes them unequal.
C1_EqIsIdentity ==
    eqResult # <<>> =>
        /\ eqResult[1] = SameIdentity(left, right)
        /\ (\/ left.header.channel # right.header.channel
            \/ left.header.destination_address # right.header.destination_address
            \/ left.header.source_address # right.header.source_address
            \/ left.header.protocol_version # right.header.protocol_version
            \/ left.command # right.command) => eqResult[1] = FALSE

C1_Witness ==
    /\ eqResult = <<TRUE>>
    /\ left # right
    /\ UsesParam16(left)
    /\ left.param16 = right.param16

\* C2: two Data that differ only in header.timestamp, a Packet's
\* frame_count or frame_data, a Telegram's frame_data, a Datagram's param32,
\* or a Datagram's param16 when command is not 0x0900, are equal under eq
\* and compare as Equal under partial_cmp.
C2_IgnoredFields ==
    EraseIgnored(left) = EraseIgnored(right) =>
        /\ eqResult # <<>> => eqResult[1] = TRUE
        /\ cmpResult # <<>> => cmpResult[1] = "Equal"

C2_Witness ==
    /\ eqResult = <<TRUE>>
    /\ cmpResult = <<"Equal">>
    /\ left.variant = "Datagram"
    /\ left.header.timestamp # right.header.timestamp
    /\ left.param16 # right.param16
    /\ left.param32 # right.param32

\* C3: for two Data of the same variant, partial_cmp is the lexicographic
\* comparison of channel, destination_address, source_address,
\* protocol_version, command and then, for Datagrams with command 0x0900
\* only, param16 as a signed 16-bit value.
C3_Lexicographic ==
    (cmpResult # <<>> /\ left.variant = right.variant) =>
        cmpResult[1] = LexCompare(OrderKey(left), OrderKey(right))

C3_Witness ==
    /\ cmpResult = <<"Less">>
    /\ UsesParam16(left)
    /\ UsesParam16(right)
    /\ HeaderTuple(left) = HeaderTuple(right)
    /\ left.param16 < 0
    /\ right.param16 > 0

\* C4: over well-formed Data the order of partial_cmp is antisymmetric
\* (a < b implies b > a) and transitive (a < b and b < c imply a < c).
C4_TransitiveAntisymmetric ==
    (cmpResult = <<"Less">> /\ WellFormed(left) /\ WellFormed(right)) =>
        /\ partial_cmp(right, left) = "Greater"
        /\ \A c \in WellFormedValues :
               partial_cmp(right, c) = "Less" => partial_cmp(left, c) = "Less"

C4_Witness ==
    /\ cmpResult = <<"Less">>
    /\ WellFormed(left)
    /\ WellFormed(right)
    /\ left.variant # right.variant
    /\ \E c \in WellFormedValues :
           /\ partial_cmp(right, c) = "Less"
           /\ c.variant # right.variant
           /\ c.variant # left.variant

\* C5 (as stated): for every pair of Data values partial_cmp returns Less,
\* Equal or Greater, and partial_cmp(a, a) is Equal.
C5_TotalOnAllPairs ==
    cmpResult # <<>> =>
        /\ cmpResult[1] \in {"Less", "Equal", "Greater"}
        /\ left = right => cmpResult[1] = "Equal"

\* C5 (amended): partial_cmp returns Less, Equal or Greater for every pair of
\* Data values except a pair with equal header tuples and different
\* variants, so in particular for every pair of well-formed Data; and
\* partial_cmp(a, a) is Equal.
C5_TotalExceptVariantMismatch ==
    cmpResult # <<>> =>
        /\ ~(HeaderTuple(left) = HeaderTuple(right) /\ left.variant # right.variant)
              => cmpResult[1] \in {"Less", "Equal", "Greater"}
        /\ (WellFormed(left) /\ WellFormed(right))
              => cmpResult[1] \in {"Less", "Equal", "Greater"}
        /\ left = right => cmpResult[1] = "Equal"

C5_Witness ==
    /\ cmpResult = <<"Greater">>
    /\ WellFormed(left)
    /\ WellFormed(right)
    /\ left.variant = "Telegram"
    /\ right.variant = "Packet"
    /\ left.header.channel = right.header.channel
    /\ left.header.destination_address = right.header.destination_address
    /\ left.header.source_address = right.header.source_address

\* C6: when two Data have equal header tuples but different variants, eq
\* returns false and partial_cmp returns None; partial_cmp returns None in
\* no other case.
C6_VariantMismatch ==
    LET mismatch == HeaderTuple(left) = HeaderTuple(right) /\ left.variant # right.variant
    IN  /\ (eqResult # <<>> /\ mismatch) => eqResult[1] = FALSE
        /\ cmpResult # <<>> => (cmpResult[1] = "None" <=> mismatch)

C6_Witness ==
    /\ cmpResult = <<"None">>
    /\ eqResult = <<FALSE>>
    /\ left.variant = "Packet"
    /\ right.variant = "Datagram"

(***************************************************************************)
(* Vocabulary of the properties of DataSet.                                *)
(***************************************************************************)
NoDuplicates(set) ==
    \A i, j \in 1..Len(set) : i # j => ~SameIdentity(set[i], set[j])

Max2(x, y) == IF x < y THEN y ELSE x

MaxOf(S) == CHOOSE x \in S : \A y \in S : y <= x

MemberTimestamps(set) == {set[i].header.timestamp : i \in 1..Len(set)}

KeptIndices(set, min_timestamp) ==
    {i \in 1..Len(set) : set[i].header.timestamp >= min_timestamp}

\* the k-th smallest element of the set of indices K
KthIndex(K, k) == CHOOSE i \in K : Cardinality({j \in K : j <= i}) = k

\* C7: after any sequence of add_data calls on an initially empty DataSet,
\* as_data_slice() contains no two logically-equal members.
C7_AddDataDeduplicates ==
    (origin = "new" /\ onlyAddData) => NoDuplicates(as_data_slice(data_set))

C7_Witness ==
    /\ origin = "new"
    /\ onlyAddData
    /\ lastOp.op = "add_data"
    /\ Len(data_set.set) = 3
    /\ Len(prev.set) = 3
    /\ data_set.set # prev.set

\* C8 (as stated): every DataSet obtainable through the public API (new,
\* from_data, add_data, add_data_set, remove_data_older_than, sort) contains
\* no two logically-equal members.
C8_NoDuplicatesEver == NoDuplicates(as_data_slice(data_set))

\* C9: DataSet.timestamp never decreases under add_data and add_data_set:
\* after add_data(d) it is max(previous timestamp, d.header.timestamp), and
\* after add_data_set(o) it is the maximum of the previous timestamp,
\* o.timestamp and the header timestamps of o's members.
C9_TimestampMonotone ==
    /\ lastOp.op = "add_data" =>
          /\ data_set.timestamp >= prev.timestamp
          /\ data_set.timestamp = Max2(prev.timestamp, lastOp.data.header.timestamp)
    /\ lastOp.op = "add_data_set" =>
          /\ data_set.timestamp >= prev.timestamp
          /\ data_set.timestamp =
                MaxOf({prev.timestamp, lastOp.other.timestamp}
                      \cup MemberTimestamps(lastOp.other.set))

C9_Witness ==
    /\ lastOp.op = "add_data_set"
    /\ data_set.timestamp > prev.timestamp
    /\ data_set.timestamp > lastOp.other.timestamp
    /\ Len(lastOp.other.set) = 2
    /\ lastOp.other.set[1].header.timestamp > lastOp.other.set[2].header.timestamp

\* C10: remove_data_older_than(t_min) keeps exactly the members whose
\* header.timestamp >= t_min (one equal to t_min is kept), unchanged and in
\* their previous relative order, and removes all others.
C10_RetainNotOlder ==
    lastOp.op = "remove_data_older_than" =>
        LET K == KeptIndices(prev.set, lastOp.min_timestamp)
        IN  /\ Len(data_set.set) = Cardinality(K)
            /\ \A k \in 1..Len(data_set.set) :
                   data_set.set[k] = prev.set[KthIndex(K, k)]

C10_Witness ==
    /\ lastOp.op = "remove_data_older_than"
    /\ Len(prev.set) = 3
    /\ Len(data_set.set) = 2
    /\ prev.set[1].header.timestamp = lastOp.min_timestamp
    /\ prev.set[2].header.timestamp < lastOp.min_timestamp
    /\ prev.set[3].header.timestamp > lastOp.min_timestamp

(***************************************************************************)
(* Specification: the device and packet caches of specification.rs.        *)
(* An Rc<DeviceSpec> or Rc<PacketSpec> is modelled by the index of its     *)
(* allocation in the cache Vec (0 stands for None); entries are never      *)
(* removed, so the index names the allocation.                             *)
(***************************************************************************)
MaxDevices == 3
MaxPackets == 2

Languages == {"En", "De", "Fr"}

\* the arguments get_device_spec is called with: the module 0x0015 and the
\* controller 0x7E31 as peers of the DFA 0x0010 on two channels, and as
\* peers of the controller on channel 1
DeviceQueries ==
    [channel : {1}, self_address : {21, 32305}, peer_address : {16, 32305}]
    \cup [channel : {0}, self_address : {21, 32305}, peer_address : {16}]

\* the arguments get_packet_spec is called with: packets of the controller
\* to the DFA and to the module
PacketQueries ==
    {[channel |-> 1, destination_address |-> 16, source_address |-> 32305, command |-> 256],
     [channel |-> 1, destination_address |-> 16, source_address |-> 32305, command |-> 512],
     [channel |-> 1, destination_address |-> 21, source_address |-> 32305, command |-> 512],
     [channel |-> 0, destination_address |-> 16, source_address |-> 32305, command |-> 256]}

HexDigits == <<"0", "1", "2", "3", "4", "5", "6", "7", "8", "9", "A", "B", "C", "D", "E", "F">>

\* format!("{:02X}", n)
Hex02(n) == HexDigits[((n \div 16) % 16) + 1] \o HexDigits[(n % 16) + 1]

\* format!("{:04X}", n)
Hex04(n) == Hex02(n \div 256) \o Hex02(n % 256)

\* x & mask for the two masks the templates use
Masked(x, mask) == IF mask = 0 THEN 0 ELSE x

\* The device templates of the specification file, in file order: the
\* controller 0x7E31 and the DFA 0x0010 whatever the peer, and the module
\* 0x0015 only as a peer of the controller.
DeviceTemplates ==
    << [self_address |-> 32305, self_mask |-> 65535, peer_address |-> 0, peer_mask |-> 0,
        name |-> [En |-> "DeltaSol MX [WMZ #1]", De |-> "DeltaSol MX [WMZ #1]",
                  Fr |-> "DeltaSol MX [WMZ #1]"]],
       [self_address |-> 16, self_mask |-> 65535, peer_address |-> 0, peer_mask |-> 0,
        name |-> [En |-> "DFA", De |-> "DFA", Fr |-> "DFA"]],
       [self_address |-> 21, self_mask |-> 65535, peer_address |-> 32305, peer_mask |-> 65535,
        name |-> [En |-> "Extension module", De |-> "Erweiterungsmodul",
                  Fr |-> "Module d'extension"]] >>

\* The packet templates of the specification file: the controller's packet
\* 0x0100 to the DFA has two fields.
PacketTemplates ==
    << [destination_address |-> 16, destination_mask |-> 65535,
        source_address |-> 32305, source_mask |-> 65535,
        command |-> 256,
        fields |-> << [id |-> "000_4_0", name |-> [En |-> "Heat quantity", De |-> "Wärmemenge",
                                                   Fr |-> "Quantité de chaleur"]],
                      [id |-> "008_4_0", name |-> [En |-> "Heat quantity today", De |-> "Wärmemenge heute",
                                                   Fr |-> "Quantité de chaleur aujourd'hui"]] >>] >>

\* Iterator::find over the elements at the indices Found: the first index,
\* 0 when there is none
FirstIndex(Found) ==
    IF Found = {} THEN 0 ELSE CHOOSE i \in Found : \A j \in Found : i <= j

\* <<template>> for the first template that matches, <<>> for None
find_device_template(self_address, peer_address) ==
    LET Match(dt) == /\ Masked(self_address, dt.self_mask) = Masked(dt.self_address, dt.self_mask)
                     /\ Masked(peer_address, dt.peer_mask) = Masked(dt.peer_address, dt.peer_mask)
        i == FirstIndex({k \in 1..Len(DeviceTemplates) : Match(DeviceTemplates[k])})
    IN  IF i = 0 THEN <<>> ELSE <<DeviceTemplates[i]>>

find_packet_template(destination_address, source_address, command) ==
    LET Match(pt) == /\ Masked(destination_address, pt.destination_mask)
                          = Masked(pt.destination_address, pt.destination_mask)
                     /\ Masked(source_address, pt.source_mask)
                          = Masked(pt.source_address, pt.source_mask)
                     /\ pt.command = command
        i == FirstIndex({k \in 1..Len(PacketTemplates) : Match(PacketTemplates[k])})
    IN  IF i = 0 THEN <<>> ELSE <<PacketTemplates[i]>>

\* the peer of a cached entry is not compared
get_cached_device_spec_IgnoresPeer(devs, channel, self_address, peer_address) ==
    FirstIndex({i \in 1..Len(devs) :
                   devs[i].channel = channel /\ devs[i].self_address = self_address})

\* the last matching entry is returned, not the first
get_cached_device_spec_LastMatch(devs, channel, self_address, peer_address) ==
    LET M == {i \in 1..Len(devs) :
                 /\ devs[i].channel = channel
                 /\ devs[i].self_address = self_address
                 /\ devs[i].peer_address \in {<<>>, <<peer_address>>}}
    IN  IF M = {} THEN 0 ELSE CHOOSE i \in M : \A j \in M : j <= i

\* Option<u16>: <<>> is None, <<a>> is Some(a)
get_cached_device_spec(devs, channel, self_address, peer_address) ==
    LET Found(device) ==
            IF device.channel # channel THEN FALSE
            ELSE IF device.self_address # self_address THEN FALSE
            ELSE IF device.peer_address # <<>> /\ device.peer_address[1] # peer_address THEN FALSE
            ELSE TRUE
    IN  FirstIndex({i \in 1..Len(devs) : Found(devs[i])})

\* the new entry is bound to the peer whether or not a template asks for it
new_device_spec_AlwaysBound(channel, self_address, peer_address, device_template, lang) ==
    [device_id |-> Hex02(channel) \o "_" \o Hex04(self_address) \o "_" \o Hex04(peer_address),
     channel |-> channel,
     self_address |-> self_address,
     peer_address |-> <<peer_address>>,
     name |-> (IF channel = 0 THEN "" ELSE "VBus " \o ToString(channel) \o ": ")
              \o (IF device_template # <<>> THEN device_template[1].name[lang]
                  ELSE "Unknown device 0x" \o Hex04(self_address))]

\* the DeviceSpec built on a cache miss from the template found (<<>> is None)
new_device_spec(channel, self_address, peer_address, device_template, lang) ==
    LET bound == device_template # <<>> /\ device_template[1].peer_mask # 0
    IN  [device_id |-> IF bound
                       THEN Hex02(channel) \o "_" \o Hex04(self_address) \o "_"
                            \o Hex04(peer_address)
                       ELSE Hex02(channel) \o "_" \o Hex04(self_address),
         channel |-> channel,
         self_address |-> self_address,
         peer_address |-> IF bound THEN <<peer_address>> ELSE <<>>,
         name |-> (IF channel = 0 THEN "" ELSE "VBus " \o ToString(channel) \o ": ")
                  \o (IF device_template # <<>> THEN device_template[1].name[lang]
                      ELSE CASE lang = "En" -> "Unknown device 0x" \o Hex04(self_address)
                             [] lang = "De" -> "Unbekanntes Gerät 0x" \o Hex04(self_address)
                             [] lang = "Fr" -> "Unknown device 0x" \o Hex04(self_address))]

\* the new entry is put in front of the cached ones
push_device_spec_Front(devs, device, channel, self_address, peer_address) ==
    [devices |-> <<device>> \o devs,
     device |-> get_cached_device_spec(<<device>> \o devs, channel, self_address,
                                       peer_address)]

\* the cache after the push and the index the second lookup returns
push_device_spec(devs, device, channel, self_address, peer_address) ==
    [devices |-> Append(devs, device),
     device |-> get_cached_device_spec(Append(devs, device), channel, self_address,
                                       peer_address)]

\* the cache is not consulted before a new entry is made
get_or_create_cached_device_spec_AlwaysCreates(devs, channel, self_address, peer_address, lang) ==
    push_device_spec(devs,
                     new_device_spec(channel, self_address, peer_address,
                                     find_device_template(self_address, peer_address), lang),
                     channel, self_address, peer_address)

\* the result is the cache after the call and the index of the returned Rc
get_or_create_cached_device_spec(devs, channel, self_address, peer_address, lang) ==
    IF get_cached_device_spec(devs, channel, self_address, peer_address) # 0
    THEN [devices |-> devs,
          device |-> get_cached_device_spec(devs, channel, self_address, peer_address)]
    ELSE push_device_spec(devs,
                          new_device_spec(channel, self_address, peer_address,
                                          find_device_template(self_address, peer_address),
                                          lang),
                          channel, self_address, peer_address)

\* the command is not compared
get_cached_packet_spec_NoCommand(pkts, channel, destination_address, source_address, command) ==
    LET Found(packet) ==
            /\ packet.channel = channel
            /\ packet.destination_address = destination_address
            /\ packet.source_address = source_address
    IN  FirstIndex({i \in 1..Len(pkts) : Found(pkts[i])})

get_cached_packet_spec(pkts, channel, destination_address, source_address, command) ==
    LET Found(packet) ==
            IF packet.channel # channel THEN FALSE
            ELSE IF packet.destination_address # destination_address THEN FALSE
            ELSE IF packet.source_address # source_address THEN FALSE
            ELSE IF packet.command # command THEN FALSE
            ELSE TRUE
    IN  FirstIndex({i \in 1..Len(pkts) : Found(pkts[i])})

\* the PacketSpec built on a cache miss: devs is the device cache after both
\* device lookups, which returned destination_device and source_device
new_packet_spec(channel, destination_address, source_address, command, devs, destination_device, source_device, packet_template, lang) ==
    [packet_id |-> Hex02(channel) \o "_" \o Hex04(destination_address) \o "_"
                   \o Hex04(source_address) \o "_10_" \o Hex04(command),
     channel |-> channel,
     destination_address |-> destination_address,
     source_address |-> source_address,
     command |-> command,
     destination_device |-> destination_device,
     source_device |-> source_device,
     name |-> IF destination_address = 16 THEN devs[source_device].name
              ELSE devs[source_device].name \o " => " \o devs[destination_device].name,
     fields |-> IF packet_template = <<>> THEN <<>>
                ELSE [i \in 1..Len(packet_template[1].fields) |->
                         [field_id |-> packet_template[1].fields[i].id,
                          packet_field_id |->
                              Hex02(channel) \o "_" \o Hex04(destination_address) \o "_"
                              \o Hex04(source_address) \o "_10_" \o Hex04(command)
                              \o "_" \o packet_template[1].fields[i].id,
                          name |-> packet_template[1].fields[i].name[lang]]]]

\* both caches after the push and the index the second lookup returns
push_packet_spec(pkts, packet, devs) ==
    [packets |-> Append(pkts, packet),
     devices |-> devs,
     packet |-> get_cached_packet_spec(Append(pkts, packet), packet.channel,
                                       packet.destination_address, packet.source_address,
                                       packet.command)]

\* the two devices are stored the wrong way round
create_packet_spec_SwappedDevices(pkts, channel, destination_address, source_address, command, destination, source, lang) ==
    push_packet_spec(pkts,
                     new_packet_spec(channel, destination_address, source_address, command,
                                     source.devices, source.device, destination.device,
                                     find_packet_template(destination_address, source_address,
                                                          command),
                                     lang),
                     source.devices)

\* the cache miss once the destination device is resolved: the source device
\* is looked up in the device cache the first lookup left
create_packet_spec(pkts, channel, destination_address, source_address, command, destination, source, lang) ==
    push_packet_spec(pkts,
                     new_packet_spec(channel, destination_address, source_address, command,
                                     source.devices, destination.device, source.device,
                                     find_packet_template(destination_address, source_address,
                                                          command),
                                     lang),
                     source.devices)

resolve_source_device(pkts, channel, destination_address, source_address, command, destination, lang) ==
    create_packet_spec(pkts, channel, destination_address, source_address, command,
                       destination,
                       get_or_create_cached_device_spec(destination.devices, channel,
                                                        source_address, destination_address,
                                                        lang),
                       lang)

\* the result is both caches after the call and the index of the returned Rc
get_or_create_cached_packet_spec(pkts, channel, destination_address, source_address, command, devs, lang) ==
    IF get_cached_packet_spec(pkts, channel, destination_address, source_address, command) # 0
    THEN [packets |-> pkts,
          devices |-> devs,
          packet |-> get_cached_packet_spec(pkts, channel, destination_address,
                                            source_address, command)]
    ELSE resolve_source_device(pkts, channel, destination_address, source_address, command,
                               get_or_create_cached_device_spec(devs, channel,
                                                                destination_address,
                                                                source_address, lang),
                               lang)

\* Specification::from_file: both caches are empty
from_file(lang) == [language |-> lang, devices |-> <<>>, packets |-> <<>>]

get_device_spec(spec, channel, self_address, peer_address) ==
    get_or_create_cached_device_spec(spec.devices, channel, self_address, peer_address,
                                     spec.language)

get_packet_spec(spec, channel, destination_address, source_address, command) ==
    get_or_create_cached_packet_spec(spec.packets, channel, destination_address, source_address,
                                     command, spec.devices, spec.language)

\* the iterator of fields_in_data_set before its first next()
fields_in_data_set == [data_index |-> 0, field_index |-> 0]

\* field_index is carried over to the next Data
RECURSIVE next_KeepsFieldIndex(_, _, _)
next_KeepsFieldIndex(spec, datas, it) ==
    IF it.data_index < Len(datas)
    THEN LET data == datas[it.data_index + 1]
             skipped == [data_index |-> it.data_index + 1, field_index |-> it.field_index]
         IN  IF data.variant = "Packet"
             THEN LET got == get_packet_spec(spec, data.header.channel,
                                             data.header.destination_address,
                                             data.header.source_address, data.command)
                      after == [language |-> spec.language, devices |-> got.devices,
                                packets |-> got.packets]
                  IN  IF it.field_index < Len(got.packets[got.packet].fields)
                      THEN LET advanced == [it EXCEPT !.field_index = it.field_index + 1]
                           IN  IF data.frame_count * 4 > 508
                               THEN [spec |-> after, it |-> advanced, item |-> <<>>,
                                     panic |-> TRUE]
                               ELSE [spec |-> after, it |-> advanced,
                                     item |-> <<[data_index |-> it.data_index,
                                                 packet_spec |-> got.packet,
                                                 field_index |-> it.field_index]>>,
                                     panic |-> FALSE]
                      ELSE next_KeepsFieldIndex(after, datas, skipped)
             ELSE next_KeepsFieldIndex(spec, datas, skipped)
    ELSE [spec |-> spec, it |-> it, item |-> <<>>, panic |-> FALSE]

\* DataSetPacketFieldIterator::next on the Data slice datas: the caches and
\* the iterator after the call, the item returned (<<>> is None) and whether
\* the slice of frame_data panicked.  Indices count from 0 as in the source.
RECURSIVE next(_, _, _)
next(spec, datas, it) ==
    IF it.data_index < Len(datas)
    THEN LET data == datas[it.data_index + 1]
             skipped == [data_index |-> it.data_index + 1, field_index |-> 0]
         IN  IF data.variant = "Packet"
             THEN LET got == get_packet_spec(spec, data.header.channel,
                                             data.header.destination_address,
                                             data.header.source_address, data.command)
                      after == [language |-> spec.language, devices |-> got.devices,
                                packets |-> got.packets]
                  IN  IF it.field_index < Len(got.packets[got.packet].fields)
                      THEN LET advanced == [it EXCEPT !.field_index = it.field_index + 1]
                           IN  IF data.frame_count * 4 > 508
                               THEN [spec |-> after, it |-> advanced, item |-> <<>>,
                                     panic |-> TRUE]
                               ELSE [spec |-> after, it |-> advanced,
                                     item |-> <<[data_index |-> it.data_index,
                                                 packet_spec |-> got.packet,
                                                 field_index |-> it.field_index]>>,
                                     panic |-> FALSE]
                      ELSE next(after, datas, skipped)
             ELSE next(spec, datas, skipped)
    ELSE [spec |-> spec, it |-> it, item |-> <<>>, panic |-> FALSE]

CachePacket(channel, destination_address, source_address, command, frame_count) ==
    [variant |-> "Packet",
     header |-> [timestamp |-> 0, channel |-> channel,
                 destination_address |-> destination_address,
                 source_address |-> source_address, protocol_version |-> 16],
     command |-> command,
     frame_count |-> frame_count,
     frame_data |-> <<0>>]

\* The programs explored, each a language passed to from_file and the
\* DataSet its iterator walks: a Packet with a template, a Datagram and a
\* Packet without a template; a Packet whose frame_count reaches past its
\* frame_data; no Data at all; two Packets with a template around a Telegram.
CacheSetups ==
    {[language |-> "En",
      data_set |-> from_data(0, <<CachePacket(1, 16, 32305, 256, 2), PoolDatagram(1, -1),
                                  CachePacket(1, 21, 32305, 512, 0)>>)],
     [language |-> "De",
      data_set |-> from_data(0, <<CachePacket(1, 16, 32305, 256, 128)>>)],
     [language |-> "Fr",
      data_set |-> from_data(0, <<>>)],
     [language |-> "En",
      data_set |-> from_data(0, <<CachePacket(1, 16, 32305, 256, 1), PoolTelegram(0),
                                  CachePacket(1, 16, 32305, 256, 127)>>)]}

InitCache ==
    /\ \E setup \in CacheSetups :
           /\ setup.language \in Languages
           /\ specification = from_file(setup.language)
           /\ data_set = setup.data_set
    /\ iter = <<>>
    /\ returned = NoResult
    /\ before = [spec |-> specification, result |-> NoResult]
    /\ repeated = FALSE
    /\ yielded = <<>>
    /\ NoFieldSpec
    /\ NoReader
    /\ NoCall
    /\ origin = "from_data"
    /\ onlyAddData = TRUE
    /\ pc = "idle"
    /\ lastOp = NoOp
    /\ prev = data_set
    /\ inserted = <<>>
    /\ left = PoolTelegram(0)
    /\ right = PoolTelegram(0)
    /\ eqResult = <<>>
    /\ cmpResult = <<>>
    /\ idResult = <<>>

\* a call on the Specification or its iterator ends
CacheReturned(op, after, it, res, state) ==
    /\ Len(after.devices) <= MaxDevices
    /\ Len(after.packets) <= MaxPackets
    /\ specification' = after
    /\ iter' = it
    /\ returned' = res
    /\ before' = [spec |-> specification, result |-> IF lastOp = op THEN returned ELSE NoResult]
    /\ repeated' = (lastOp = op)
    /\ yielded' = IF op.op = "fields_in_data_set" THEN <<>>
                  ELSE IF op.op = "next" /\ res # NoResult THEN yielded \o res.item
                  ELSE yielded
    /\ lastOp' = op
    /\ pc' = state
    /\ UNCHANGED <<data_set, origin, onlyAddData, prev, inserted>>
    /\ UNCHANGED dataVars
    /\ UNCHANGED rawVars
    /\ UNCHANGED readerVars
    /\ UNCHANGED borrowVars

GetDeviceSpec ==
    /\ pc # "panicked"
    /\ \E q \in DeviceQueries :
           LET got == get_device_spec(specification, q.channel, q.self_address,
                                      q.peer_address)
           IN  CacheReturned([op |-> "get_device_spec", channel |-> q.channel,
                              self_address |-> q.self_address,
                              peer_address |-> q.peer_address],
                             [specification EXCEPT !.devices = got.devices], iter,
                             [kind |-> "device", index |-> got.device], "returned")

GetPacketSpec ==
    /\ pc # "panicked"
    /\ \E q \in PacketQueries :
           LET got == get_packet_spec(specification, q.channel, q.destination_address,
                                      q.source_address, q.command)
           IN  CacheReturned([op |-> "get_packet_spec", channel |-> q.channel,
                              destination_address |-> q.destination_address,
                              source_address |-> q.source_address, command |-> q.command],
                             [specification EXCEPT !.devices = got.devices, !.packets = got.packets],
                             iter, [kind |-> "packet", index |-> got.packet], "returned")

FieldsInDataSet ==
    /\ pc # "panicked"
    /\ CacheReturned([op |-> "fields_in_data_set"], specification, <<fields_in_data_set>>,
                     [kind |-> "iterator"], "returned")

IteratorNext ==
    /\ pc # "panicked"
    /\ iter # <<>>
    /\ LET n == next(specification, data_set.set, iter[1])
       IN  /\ ~n.panic
           /\ CacheReturned([op |-> "next"], n.spec, <<n.it>>,
                            [kind |-> "item", item |-> n.item], "returned")

\* the slice packet.frame_data[0..frame_count * 4] is out of range
IteratorNextPanics ==
    /\ pc # "panicked"
    /\ iter # <<>>
    /\ LET n == next(specification, data_set.set, iter[1])
       IN  /\ n.panic
           /\ CacheReturned([op |-> "next"], n.spec, <<n.it>>, NoResult, "panicked")

NextCache ==
    \/ GetDeviceSpec
    \/ GetPacketSpec
    \/ FieldsInDataSet
    \/ IteratorNext
    \/ IteratorNextPanics

SpecCache == InitCache /\ [][NextCache]_vars

\* C11: remove_data_older_than(t) leaves DataSet.timestamp unchanged, even
\* when it removes the member whose timestamp equals DataSet.timestamp or
\* removes every member.
C11_RemoveKeepsTimestamp ==
    lastOp.op = "remove_data_older_than" => data_set.timestamp = prev.timestamp

C11_Witness ==
    /\ lastOp.op = "remove_data_older_than"
    /\ Len(prev.set) >= 2
    /\ data_set.set = <<>>
    /\ \E i \in 1..Len(prev.set) : prev.set[i].header.timestamp = prev.timestamp
    /\ \A i \in 1..Len(prev.set) : prev.set[i].header.timestamp <= prev.timestamp
    /\ data_set.timestamp = prev.timestamp

\* C12: add_data(d) on a duplicate-free DataSet either replaces the one
\* logically-equal member at its existing index (length unchanged) or, if
\* there is none, appends d at the end (length + 1); every other member
\* keeps its value and index.
C12_ReplaceOrAppend ==
    (lastOp.op = "add_data" /\ NoDuplicates(prev.set)) =>
        LET d == lastOp.data
            M == {i \in 1..Len(prev.set) : SameIdentity(prev.set[i], d)}
        IN  /\ Cardinality(M) <= 1
            /\ M = {} =>
                  /\ Len(data_set.set) = Len(prev.set) + 1
                  /\ data_set.set[Len(data_set.set)] = d
            /\ M # {} => Len(data_set.set) = Len(prev.set)
            /\ \A i \in 1..Len(prev.set) :
                   data_set.set[i] = IF i \in M THEN d ELSE prev.set[i]

C12_Witness ==
    /\ lastOp.op = "add_data"
    /\ NoDuplicates(prev.set)
    /\ Len(prev.set) = 3
    /\ Len(data_set.set) = 3
    /\ SameIdentity(prev.set[1], lastOp.data)
    /\ prev.set[1] # lastOp.data
    /\ data_set.set[1] = lastOp.data

\* the members of set that have the identity of data
Matches(set, data) == {i \in 1..Len(set) : SameIdentity(set[i], data)}

\* the last member of other with the identity of data
LastMatch(other, data) == other[MaxOf(Matches(other, data))]

\* the indices of other where an identity absent from set occurs first
FirstNew(set, other) ==
    {j \in 1..Len(other) :
        /\ Matches(set, other[j]) = {}
        /\ \A k \in 1..(j - 1) : ~SameIdentity(other[k], other[j])}

\* C13: add_data_set(other) has the same effect on the members as calling
\* add_data for each member of other in other's order: a member that is the
\* first of its identity takes the last frame other holds for that identity,
\* identities new to the set are appended in the order other first names
\* them, and merging a duplicate-free set into an empty DataSet yields the
\* same members in the same order.
C13_MergeInOrder ==
    lastOp.op = "add_data_set" =>
        LET p == prev.set
            o == lastOp.other.set
            r == data_set.set
            N == FirstNew(p, o)
        IN  /\ Len(r) = Len(p) + Cardinality(N)
            /\ \A i \in 1..Len(p) :
                   r[i] = IF Matches(o, p[i]) # {} /\ \A k \in 1..(i - 1) : ~SameIdentity(p[k], p[i])
                          THEN LastMatch(o, p[i])
                          ELSE p[i]
            /\ \A k \in 1..Cardinality(N) :
                   r[Len(p) + k] = LastMatch(o, o[KthIndex(N, k)])
            /\ (p = <<>> /\ NoDuplicates(o)) => r = o

C13_Witness ==
    /\ lastOp.op = "add_data_set"
    /\ Len(prev.set) = 2
    /\ Len(lastOp.other.set) = 2
    /\ NoDuplicates(prev.set)
    /\ NoDuplicates(lastOp.other.set)
    /\ Matches(prev.set, lastOp.other.set[1]) = {}
    /\ Matches(prev.set, lastOp.other.set[2]) = {1}
    /\ prev.set[1] # lastOp.other.set[2]
    /\ data_set.set = <<lastOp.other.set[2], prev.set[2], lastOp.other.set[1]>>

\* the rearrangements of a sequence
Rearrangements(set) ==
    LET n == Len(set)
        P == {f \in [1..n -> 1..n] : \A i, j \in 1..n : f[i] = f[j] => i = j}
    IN  {[i \in 1..n |-> set[f[i]]] : f \in P}

\* C14: after sort() on a duplicate-free DataSet of well-formed Data the
\* members are strictly ascending under the Data ordering and are the members
\* sort() was given, so every insertion order of the same logical slots gives
\* the same sequence after sort().
C14_SortStrictlyAscending ==
    (/\ lastOp.op = "sort"
     /\ pc = "returned"
     /\ NoDuplicates(prev.set)
     /\ \A i \in 1..Len(prev.set) : WellFormed(prev.set[i])) =>
        LET r == data_set.set
        IN  /\ \A i, j \in 1..Len(r) :
                   i < j => /\ partial_cmp(r[i], r[j]) = "Less"
                            /\ LexCompare(OrderKey(r[i]), OrderKey(r[j])) = "Less"
            /\ r \in Rearrangements(prev.set)
            /\ \A q \in Rearrangements(prev.set) : sort_by(q) = [panic |-> FALSE, set |-> r]

C14_Witness ==
    /\ lastOp.op = "sort"
    /\ pc = "returned"
    /\ NoDuplicates(prev.set)
    /\ \A i \in 1..Len(prev.set) : WellFormed(prev.set[i])
    /\ Len(prev.set) = 3
    /\ partial_cmp(prev.set[1], prev.set[2]) = "Greater"
    /\ partial_cmp(prev.set[2], prev.set[3]) = "Greater"
    /\ data_set.set = <<prev.set[3], prev.set[2], prev.set[1]>>

IsPrefix(s, t) == Len(s) <= Len(t) /\ SubSeq(t, 1, Len(s)) = s

\* the cached devices a lookup with the arguments of op may return
DeviceMatches(devs, op) ==
    {i \in 1..Len(devs) :
        /\ devs[i].channel = op.channel
        /\ devs[i].self_address = op.self_address
        /\ devs[i].peer_address = <<>> \/ devs[i].peer_address = <<op.peer_address>>}

PacketKey(p) == <<p.channel, p.destination_address, p.source_address, p.command>>

MinOf(S) == CHOOSE x \in S : \A y \in S : x <= y

\* C16: two successive get_device_spec calls, or two successive
\* get_packet_spec calls, with identical arguments return the same shared
\* descriptor, and the second call adds no entry to either cache.
C16_RepeatedLookupIsCached ==
    (repeated /\ lastOp.op \in {"get_device_spec", "get_packet_spec"}) =>
        /\ returned = before.result
        /\ returned.index # 0
        /\ specification.devices = before.spec.devices
        /\ specification.packets = before.spec.packets

C16_Witness ==
    /\ repeated
    /\ lastOp.op = "get_packet_spec"
    /\ returned = [kind |-> "packet", index |-> 2]
    /\ before.result = returned
    /\ Len(specification.packets) = 2
    /\ Len(specification.devices) = 3

\* C17: across any sequence of get_device_spec, get_packet_spec and
\* field-iterator next() calls the device and packet caches only grow: every
\* call leaves the entries cached before it unchanged at their indices, and
\* both caches are empty right after from_file.
C17_CachesOnlyGrow ==
    /\ IsPrefix(before.spec.devices, specification.devices)
    /\ IsPrefix(before.spec.packets, specification.packets)
    /\ lastOp = NoOp => specification.devices = <<>> /\ specification.packets = <<>>

C17_Witness ==
    /\ lastOp.op = "next"
    /\ Len(before.spec.devices) = 2
    /\ Len(before.spec.packets) = 1
    /\ Len(specification.devices) = 3
    /\ Len(specification.packets) = 2
    /\ returned = [kind |-> "item", item |-> <<>>]

\* C18 as stated: an entry cached with peer_address None, channel and
\* self_address matching, is the entry get_device_spec returns, for every
\* peer value.
C18_NoneEntryReturnedForEveryPeer ==
    lastOp.op = "get_device_spec" =>
        \A i \in 1..Len(before.spec.devices) :
            (/\ before.spec.devices[i].channel = lastOp.channel
             /\ before.spec.devices[i].self_address = lastOp.self_address
             /\ before.spec.devices[i].peer_address = <<>>) => returned.index = i

\* C18, amended: get_device_spec returns the first cached entry whose channel
\* and self_address match and whose peer_address is None or equals peer, and
\* creates a new entry, at the end, only when no such entry exists; an entry
\* cached with peer_address None is returned for every peer value for which
\* no matching entry comes before it.
C18_FirstMatchingEntry ==
    lastOp.op = "get_device_spec" =>
        LET M == DeviceMatches(before.spec.devices, lastOp)
        IN  /\ M # {} => /\ returned.index = MinOf(M)
                         /\ specification.devices = before.spec.devices
            /\ M = {} => /\ Len(specification.devices) = Len(before.spec.devices) + 1
                         /\ returned.index = Len(specification.devices)
                         /\ DeviceMatches(specification.devices, lastOp)
                                = {Len(specification.devices)}
            /\ specification.packets = before.spec.packets

C18_Witness ==
    /\ lastOp.op = "get_device_spec"
    /\ Len(before.spec.devices) = 3
    /\ before.spec.devices[1].peer_address = <<lastOp.peer_address>>
    /\ before.spec.devices[3].peer_address = <<>>
    /\ DeviceMatches(before.spec.devices, lastOp) = {1, 3}
    /\ returned = [kind |-> "device", index |-> 1]

\* C19: the packet cache never holds two entries with the same (channel,
\* destination_address, source_address, command), and get_packet_spec always
\* returns an entry whose four key fields equal its arguments.
C19_PacketKeysUnique ==
    /\ \A i, j \in 1..Len(specification.packets) :
           i # j => PacketKey(specification.packets[i]) # PacketKey(specification.packets[j])
    /\ lastOp.op = "get_packet_spec" =>
           /\ returned.index \in 1..Len(specification.packets)
           /\ PacketKey(specification.packets[returned.index]) = PacketKey(lastOp)

C19_Witness ==
    /\ lastOp.op = "get_packet_spec"
    /\ Len(before.spec.packets) = 1
    /\ Len(specification.packets) = 2
    /\ returned = [kind |-> "packet", index |-> 2]
    /\ specification.packets[1].command # specification.packets[2].command
    /\ specification.packets[1].channel = specification.packets[2].channel
    /\ specification.packets[1].destination_address = specification.packets[2].destination_address
    /\ specification.packets[1].source_address = specification.packets[2].source_address

\* C20: lookups of unknown devices and packets never fail: get_device_spec
\* for an address with no device template returns a cached DeviceSpec with
\* peer_address None and a device_id without peer suffix, and
\* get_packet_spec for a key with no packet template returns a cached
\* PacketSpec with an empty fields list.
C20_UnknownLookupsSucceed ==
    /\ (/\ lastOp.op = "get_device_spec"
        /\ find_device_template(lastOp.self_address, lastOp.peer_address) = <<>>) =>
           /\ pc = "returned"
           /\ returned.index \in 1..Len(specification.devices)
           /\ LET device == specification.devices[returned.index]
              IN  /\ device.channel = lastOp.channel
                  /\ device.self_address = lastOp.self_address
                  /\ device.peer_address = <<>>
                  /\ device.device_id = Hex02(lastOp.channel) \o "_" \o Hex04(lastOp.self_address)
    /\ (/\ lastOp.op = "get_packet_spec"
        /\ find_packet_template(lastOp.destination_address, lastOp.source_address,
                                lastOp.command) = <<>>) =>
           /\ pc = "returned"
           /\ returned.index \in 1..Len(specification.packets)
           /\ specification.packets[returned.index].fields = <<>>
           /\ PacketKey(specification.packets[returned.index]) = PacketKey(lastOp)

C20_Witness ==
    /\ lastOp = [op |-> "get_device_spec", channel |-> 0, self_address |-> 21,
                 peer_address |-> 16]
    /\ specification.language = "En"
    /\ Len(before.spec.devices) = 2
    /\ returned = [kind |-> "device", index |-> 3]
    /\ specification.devices[3] = [device_id |-> "00_0015", channel |-> 0, self_address |-> 21,
                                   peer_address |-> <<>>, name |-> "Unknown device 0x0015"]
    /\ Len(specification.packets) = 1
    /\ specification.packets[1].packet_id = "01_0010_7E31_10_0200"
    /\ specification.packets[1].fields = <<>>
    /\ specification.packets[1].name = "VBus 1: DeltaSol MX [WMZ #1]"

(***************************************************************************)
(* Specification: raw-value decoding, PacketFieldSpec::get_raw_value_i64.  *)
(* An i64 is kept as four 16-bit limbs, least significant first, the last  *)
(* one signed: its value is l[1] + 2^16 * l[2] + 2^32 * l[3] + 2^48 * l[4].*)
(***************************************************************************)
MaxParts == 3
MaxBufLen == 3

\* the i64 of an integer of small magnitude
I64(n) ==
    <<n % 65536, (n \div 65536) % 65536,
      IF n < 0 THEN 65535 ELSE 0, IF n < 0 THEN -1 ELSE 0>>

\* i64::MAX
I64Max == <<65535, 65535, 65535, 32767>>

\* the i64 that the limbs with carries c make: its overflow flag and, wrapped
\* to 64 bits, its value
I64Carry(c1, c2, c3, c4) ==
    LET k1 == c1 \div 65536
        k2 == (c2 + k1) \div 65536
        k3 == (c3 + k2) \div 65536
        top == c4 + k3
    IN  [overflow |-> top < -32768 \/ top > 32767,
         value |-> <<c1 % 65536, (c2 + k1) % 65536, (c3 + k2) % 65536,
                     ((top + 32768) % 65536) - 32768>>]

\* the factor is left out of the product
I64Mul_NoFactor(x, m) == I64Carry(m % 65536, 0, 0, 0)

\* x * m for an i64 x and a small integer m
I64Mul(x, m) == I64Carry(x[1] * m, x[2] * m, x[3] * m, x[4] * m)

\* x + y for two i64
I64Add(x, y) == I64Carry(x[1] + y[1], x[2] + y[2], x[3] + y[3], x[4] + y[4])

\* a & b on the n low bits
RECURSIVE BitAnd(_, _, _)
BitAnd(a, b, n) ==
    IF n = 0 THEN 0
    ELSE (a % 2) * (b % 2) + 2 * BitAnd(a \div 2, b \div 2, n - 1)

\* v >> n, arithmetic, for a value v of at most nine bits
ShiftRight(v, n) == IF n >= 9 THEN (IF v < 0 THEN -1 ELSE 0) ELSE v \div (2 ^ n)

\* The parts get_raw_value_i64 is tried on: the three low bytes of a
\* little-endian unsigned field at offset 0, the two low bytes of one at
\* offset 1, a signed byte, a signed part with a mask
\* and a bit position, a signed part with a bit position alone, a part
\* behind every buffer, a part with the largest factor and a part whose bit
\* position is the width of an i64.
RawParts ==
    {[offset |-> 0, mask |-> 255, bit_pos |-> 0, is_signed |-> FALSE, factor |-> I64(1)],
     [offset |-> 1, mask |-> 255, bit_pos |-> 0, is_signed |-> FALSE, factor |-> I64(256)],
     [offset |-> 2, mask |-> 255, bit_pos |-> 0, is_signed |-> FALSE, factor |-> I64(65536)],
     [offset |-> 1, mask |-> 255, bit_pos |-> 0, is_signed |-> FALSE, factor |-> I64(1)],
     [offset |-> 2, mask |-> 255, bit_pos |-> 0, is_signed |-> FALSE, factor |-> I64(256)],
     [offset |-> 0, mask |-> 255, bit_pos |-> 0, is_signed |-> TRUE, factor |-> I64(1)],
     [offset |-> 1, mask |-> 240, bit_pos |-> 4, is_signed |-> TRUE, factor |-> I64(256)],
     [offset |-> 2, mask |-> 255, bit_pos |-> 3, is_signed |-> TRUE, factor |-> I64(-5)],
     [offset |-> 5, mask |-> 255, bit_pos |-> 0, is_signed |-> FALSE, factor |-> I64(1)],
     [offset |-> 0, mask |-> 255, bit_pos |-> 0, is_signed |-> FALSE, factor |-> I64Max],
     [offset |-> 1, mask |-> 255, bit_pos |-> 64, is_signed |-> FALSE, factor |-> I64(1)]}

RawBytes == {1, 255}

PartLists == UNION {[1..n -> RawParts] : n \in 0..MaxParts}

Buffers == UNION {[1..n -> RawBytes] : n \in 0..MaxBufLen}

\* the byte is never read as an i8
part_value_Unsigned(part, byte, checks) ==
    LET masked == IF part.mask # 255 THEN BitAnd(byte, part.mask, 8) ELSE byte
    IN  [panic |-> checks /\ part.bit_pos >= 64,
         value |-> ShiftRight(masked, part.bit_pos % 64)]

\* lines 413-423: the value a part reads from the byte, before the factor;
\* a shift by 64 or more panics when overflow is checked and otherwise
\* shifts by bit_pos modulo 64
part_value(part, byte, checks) ==
    LET read == IF part.is_signed THEN (IF byte >= 128 THEN byte - 256 ELSE byte) ELSE byte
        masked == IF part.mask # 255 THEN BitAnd(read % 256, part.mask, 8) ELSE read
    IN  IF part.bit_pos > 0
        THEN IF part.bit_pos >= 64
             THEN [panic |-> checks, value |-> ShiftRight(masked, part.bit_pos % 64)]
             ELSE [panic |-> FALSE, value |-> ShiftRight(masked, part.bit_pos)]
        ELSE [panic |-> FALSE, value |-> masked]

\* a part behind the buffer makes the value valid too
RECURSIVE decode_from_ValidWhenSkipped(_, _, _, _, _, _)
decode_from_ValidWhenSkipped(parts, bytes, i, raw_value, valid, checks) ==
    IF i > Len(parts)
    THEN [panic |-> FALSE, value |-> IF valid THEN <<raw_value>> ELSE <<>>]
    ELSE IF parts[i].offset < Len(bytes)
         THEN LET pv == part_value(parts[i], bytes[parts[i].offset + 1], checks)
                  product == I64Mul(parts[i].factor, pv.value)
                  sum == I64Add(raw_value, product.value)
              IN  IF pv.panic \/ (checks /\ (product.overflow \/ sum.overflow))
                  THEN [panic |-> TRUE, value |-> <<>>]
                  ELSE decode_from_ValidWhenSkipped(parts, bytes, i + 1, sum.value, TRUE, checks)
         ELSE decode_from_ValidWhenSkipped(parts, bytes, i + 1, raw_value, TRUE, checks)

\* the loop over the parts from the i-th on, with raw_value and valid as the
\* earlier parts left them; an overflow of the product or of the sum panics
\* when overflow is checked and otherwise wraps
RECURSIVE decode_from(_, _, _, _, _, _)
decode_from(parts, bytes, i, raw_value, valid, checks) ==
    IF i > Len(parts)
    THEN [panic |-> FALSE, value |-> IF valid THEN <<raw_value>> ELSE <<>>]
    ELSE IF parts[i].offset < Len(bytes)
         THEN LET pv == part_value(parts[i], bytes[parts[i].offset + 1], checks)
                  product == I64Mul(parts[i].factor, pv.value)
                  sum == I64Add(raw_value, product.value)
              IN  IF pv.panic \/ (checks /\ (product.overflow \/ sum.overflow))
                  THEN [panic |-> TRUE, value |-> <<>>]
                  ELSE decode_from(parts, bytes, i + 1, sum.value, TRUE, checks)
         ELSE decode_from(parts, bytes, i + 1, raw_value, valid, checks)

\* the result: whether the call panicked and, if not, the Option<i64>
\* returned (<<>> is None)
get_raw_value_i64(parts, bytes, checks) == decode_from(parts, bytes, 1, I64(0), FALSE, checks)

InitRaw ==
    /\ field_parts \in PartLists
    /\ buf \in Buffers
    /\ overflow_checks \in BOOLEAN
    /\ rawResult = <<>>
    /\ left = PoolTelegram(0)
    /\ right = PoolTelegram(0)
    /\ eqResult = <<>>
    /\ cmpResult = <<>>
    /\ idResult = <<>>
    /\ data_set = NoDataSet
    /\ origin = "none"
    /\ onlyAddData = TRUE
    /\ pc = "idle"
    /\ lastOp = NoOp
    /\ prev = NoDataSet
    /\ inserted = <<>>
    /\ NoSpecification
    /\ NoReader
    /\ NoCall

CallGetRawValueI64 ==
    /\ rawResult = <<>>
    /\ rawResult' = <<get_raw_value_i64(field_parts, buf, overflow_checks)>>
    /\ UNCHANGED <<field_parts, buf, overflow_checks>>
    /\ UNCHANGED dataVars
    /\ UNCHANGED setVars
    /\ UNCHANGED cacheVars
    /\ UNCHANGED readerVars
    /\ UNCHANGED borrowVars

NextRaw == CallGetRawValueI64

SpecRaw == InitRaw /\ [][NextRaw]_vars

(***************************************************************************)
(* Vocabulary of the decoding properties.                                  *)
(***************************************************************************)
\* the indices of the parts that lie inside the buffer
Contributing(parts, bytes) == {i \in 1..Len(parts) : parts[i].offset < Len(bytes)}

\* what the part contributes to the raw value, wrapped to 64 bits
Contribution(part, bytes) ==
    I64Mul(part.factor, part_value(part, bytes[part.offset + 1], FALSE).value).value

\* the wrapped sum of the contributions of the parts at the indices in S
RECURSIVE SumOfContributions(_, _, _)
SumOfContributions(parts, bytes, S) ==
    IF S = {} THEN I64(0)
    ELSE LET i == CHOOSE j \in S : \A k \in S : k <= j
         IN  I64Add(SumOfContributions(parts, bytes, S \ {i}),
                    Contribution(parts[i], bytes)).value

\* no overflow can come from the part
Benign(part) == part.bit_pos < 64 /\ part.factor # I64Max

\* parts is an unsigned little-endian field that starts at offset base
LittleEndianAt(parts, base) ==
    \A i \in 1..Len(parts) :
        parts[i] = [offset |-> base + i - 1, mask |-> 255, bit_pos |-> 0,
                    is_signed |-> FALSE, factor |-> I64(256 ^ (i - 1))]

\* the little-endian value of the bytes of the buffer from offset base on, at
\* most n of them
RECURSIVE LittleEndianValue(_, _, _)
LittleEndianValue(bytes, base, n) ==
    IF n = 0 \/ base >= Len(bytes) THEN 0
    ELSE bytes[base + 1] + 256 * LittleEndianValue(bytes, base + 1, n - 1)

\* C21: get_raw_value_i64(buf) returns None exactly when no part of the field
\* has offset < buf.len() (a field with no parts and an empty buffer
\* included); otherwise it returns the sum of the contributions of exactly
\* the parts whose offset is < buf.len(); and a short buffer never makes it
\* fail: whatever the buffer length, it returns when no part can overflow.
C21_AbsentIffNoPartInBuffer ==
    rawResult # <<>> =>
        /\ (\A i \in 1..Len(field_parts) : Benign(field_parts[i])) => ~rawResult[1].panic
        /\ ~rawResult[1].panic =>
              /\ rawResult[1].value = <<>> <=> Contributing(field_parts, buf) = {}
              /\ rawResult[1].value # <<>> =>
                     rawResult[1].value[1]
                         = SumOfContributions(field_parts, buf, Contributing(field_parts, buf))

C21_Witness ==
    /\ rawResult # <<>>
    /\ Len(field_parts) = 3
    /\ Len(buf) = 2
    /\ Contributing(field_parts, buf) = {1, 3}
    /\ field_parts[2].offset = 2
    /\ ~rawResult[1].panic
    /\ rawResult[1].value = <<I64(255 + 256 * 255)>>

\* C22: for a field whose parts have mask 0xFF, bit_pos 0, is_signed false and
\* factor 256^k at offset base+k, get_raw_value_i64 returns the little-endian
\* unsigned integer formed by the buffer bytes at those offsets; on a buffer
\* truncated to n of those bytes it returns the little-endian value of the n
\* low-order bytes.
C22_LittleEndianUnsigned ==
    rawResult # <<>> =>
        \A base \in 0..1 :
            (field_parts # <<>> /\ LittleEndianAt(field_parts, base)) =>
                /\ ~rawResult[1].panic
                /\ rawResult[1].value
                       = IF base < Len(buf)
                         THEN <<I64(LittleEndianValue(buf, base, Len(field_parts)))>>
                         ELSE <<>>

C22_Witness ==
    /\ rawResult # <<>>
    /\ Len(field_parts) = 3
    /\ LittleEndianAt(field_parts, 0)
    /\ buf = <<255, 1>>
    /\ rawResult[1] = [panic |-> FALSE, value |-> <<I64(511)>>]

\* C23 as stated: a part with is_signed true that reads the byte 0xFF
\* contributes -1 * factor to the raw value, for every mask and bit_pos.
C23_SignedFFIsMinusFactor ==
    (/\ rawResult # <<>>
     /\ Len(field_parts) = 1
     /\ field_parts[1].is_signed
     /\ field_parts[1].offset < Len(buf)
     /\ buf[field_parts[1].offset + 1] = 255) =>
        rawResult[1] = [panic |-> FALSE, value |-> <<I64Mul(field_parts[1].factor, -1).value>>]

\* C23, amended: a part with is_signed true and mask 0xFF that reads the byte
\* 0xFF contributes -1 * factor, for every bit_pos below 64; with another
\* mask the sign bits are masked away before the shift and the part
\* contributes (mask >> bit_pos) * factor.
C23_SignedFFMaskFF ==
    (/\ rawResult # <<>>
     /\ Len(field_parts) = 1
     /\ field_parts[1].is_signed
     /\ field_parts[1].bit_pos < 64
     /\ field_parts[1].offset < Len(buf)
     /\ buf[field_parts[1].offset + 1] = 255) =>
        rawResult[1] =
            [panic |-> FALSE,
             value |-> <<I64Mul(field_parts[1].factor,
                                IF field_parts[1].mask = 255 THEN -1
                                ELSE field_parts[1].mask \div (2 ^ field_parts[1].bit_pos)).value>>]

C23_Witness ==
    /\ rawResult # <<>>
    /\ field_parts = <<[offset |-> 2, mask |-> 255, bit_pos |-> 3, is_signed |-> TRUE,
                        factor |-> I64(-5)]>>
    /\ buf = <<1, 1, 255>>
    /\ rawResult[1] = [panic |-> FALSE, value |-> <<I64(5)>>]

\* C24: get_raw_value_i64 never panics: for every part list and every buffer
\* the accumulation completes and returns a value.
C24_NeverPanics ==
    rawResult # <<>> => ~rawResult[1].panic

(***************************************************************************)
(* Vocabulary of the iteration properties.                                 *)
(***************************************************************************)
\* the number of fields of the PacketSpec of the Packet data
FieldCount(spec, data) ==
    LET got == get_packet_spec(spec, data.header.channel, data.header.destination_address,
                               data.header.source_address, data.command)
    IN  Len(got.packets[got.packet].fields)

\* the pairs <<data_index, field_index>> of the Packet members of datas and
\* the fields of their PacketSpecs, from the pair <<d, f>> on, in
\* lexicographic order
RECURSIVE PairsFrom(_, _, _, _)
PairsFrom(spec, datas, d, f) ==
    IF d >= Len(datas) THEN <<>>
    ELSE IF datas[d + 1].variant = "Packet" /\ f < FieldCount(spec, datas[d + 1])
         THEN <<(<<d, f>>)>> \o PairsFrom(spec, datas, d, f + 1)
         ELSE PairsFrom(spec, datas, d + 1, 0)

YieldedPairs == [i \in 1..Len(yielded) |-> <<yielded[i].data_index, yielded[i].field_index>>]

\* the last call was a next() that returned None
IteratorExhausted ==
    iter # <<>> /\ pc = "returned" /\ lastOp.op = "next" /\ returned = [kind |-> "item", item |-> <<>>]

\* C25: the iterator of fields_in_data_set yields exactly one item per pair of
\* a Packet member and a field of that Packet's PacketSpec and nothing for a
\* Datagram or Telegram; the items come in ascending data_index and, within
\* one data_index, field_index runs from 0 to fields.len()-1 without gap or
\* repeat: what was yielded so far is a prefix of the pairs in lexicographic
\* order, each item carries the PacketSpec of its Packet, and all the pairs
\* were yielded when next() returns None.
C25_OneItemPerPacketField ==
    /\ IsPrefix(YieldedPairs, PairsFrom(specification, data_set.set, 0, 0))
    /\ \A i \in 1..Len(yielded) :
           LET data == data_set.set[yielded[i].data_index + 1]
           IN  /\ data.variant = "Packet"
               /\ PacketKey(specification.packets[yielded[i].packet_spec])
                      = <<data.header.channel, data.header.destination_address,
                          data.header.source_address, data.command>>
    /\ IteratorExhausted => YieldedPairs = PairsFrom(specification, data_set.set, 0, 0)

C25_Witness ==
    /\ IteratorExhausted
    /\ Len(data_set.set) = 3
    /\ data_set.set[2].variant = "Telegram"
    /\ YieldedPairs = <<(<<0, 0>>), (<<0, 1>>), (<<2, 0>>), (<<2, 1>>)>>

(***************************************************************************)
(* The identity strings of the Data variants.                              *)
(***************************************************************************)
\* Header::to_id_string: "CC_DDDD_SSSS_PP"
header_to_id_string(header) ==
    Hex02(header.channel) \o "_" \o Hex04(header.destination_address) \o "_"
        \o Hex04(header.source_address) \o "_" \o Hex02(header.protocol_version)

\* Packet::to_id_string: the header id and the command, 4 hex digits
packet_to_id_string(packet) ==
    header_to_id_string(packet.header) \o "_" \o Hex04(packet.command)

\* Datagram::to_id_string: the header id, the command and param16, each
\* 4 hex digits; the i16 param16 is rendered as its 16-bit pattern
datagram_to_id_string(dgram) ==
    header_to_id_string(dgram.header) \o "_" \o Hex04(dgram.command) \o "_"
        \o Hex04(dgram.param16 % 65536)

\* Telegram::to_id_string
telegram_to_id_string(tgram) ==
    header_to_id_string(tgram.header) \o "_" \o Hex02(tgram.command)

\* every variant is rendered as a Packet is
to_id_string_AlwaysPacket(data) == packet_to_id_string(data)

\* Data::to_id_string
to_id_string(data) ==
    CASE data.variant = "Packet" -> packet_to_id_string(data)
      [] data.variant = "Datagram" -> datagram_to_id_string(data)
      [] data.variant = "Telegram" -> telegram_to_id_string(data)

CallToIdString ==
    /\ idResult = <<>>
    /\ idResult' = <<to_id_string(left), to_id_string(right)>>
    /\ UNCHANGED <<left, right, eqResult, cmpResult>>
    /\ UNCHANGED setVars
    /\ UNCHANGED cacheVars
    /\ UNCHANGED rawVars
    /\ UNCHANGED readerVars
    /\ UNCHANGED borrowVars

NextId == CallEq \/ CallToIdString

SpecId == InitData /\ [][NextId]_vars

MaxFiles == 2
MaxFileLen == 2
MaxBufSize == 2

FileBytes == {0, 1}

FileContents == UNION {[1..n -> FileBytes] : n \in 0..MaxFileLen}

FileLists == UNION {[1..n -> FileContents] : n \in 0..MaxFiles}

\* FileListReader::new
flr_new(file_list) == [file_list |-> file_list, file_index |-> 0, file |-> <<>>]

\* File::open
file_open(content) == [content |-> content, pos |-> 0]

\* File::read into a buffer of n bytes: the sizes it may return; 0 at the
\* end of the file and for an empty buffer
file_read_sizes(file, n) ==
    LET remaining == Len(file.content) - file.pos
    IN  IF n = 0 \/ remaining = 0 THEN {0}
        ELSE 1..(IF n < remaining THEN n ELSE remaining)

\* file_index is raised before File::open is tried
RECURSIVE read_AdvancesBeforeOpen(_, _)
read_AdvancesBeforeOpen(reader, n) ==
    LET failed_read == [flr |-> reader,
                        result |-> [kind |-> "Err", op |-> "read",
                                    index |-> reader.file_index - 1],
                        bytes |-> <<>>]
        failed_open == [flr |-> [reader EXCEPT !.file_index = @ + 1],
                        result |-> [kind |-> "Err", op |-> "open",
                                    index |-> reader.file_index],
                        bytes |-> <<>>]
        sizes == IF reader.file = <<>> THEN {0} ELSE file_read_sizes(reader.file[1], n)
        reads ==
            IF reader.file = <<>> THEN {}
            ELSE {failed_read} \cup
                 {[flr |-> [reader EXCEPT !.file[1].pos = @ + size],
                   result |-> [kind |-> "Ok", size |-> size],
                   bytes |-> SubSeq(reader.file[1].content, reader.file[1].pos + 1,
                                    reader.file[1].pos + size)] :
                      size \in sizes \ {0}}
        opens ==
            IF 0 \notin sizes
            THEN {}
            ELSE IF reader.file_index >= Len(reader.file_list)
                 THEN {[flr |-> reader, result |-> [kind |-> "Ok", size |-> 0], bytes |-> <<>>]}
                 ELSE {failed_open} \cup
                      read_AdvancesBeforeOpen([reader EXCEPT
                               !.file = <<file_open(reader.file_list[reader.file_index + 1])>>,
                               !.file_index = @ + 1], n)
    IN  reads \cup opens

\* lines 56-73: the outcomes of read on a buffer of n bytes: the reader
\* after the call, the value returned and the bytes put into the buffer.  An
\* Err names the operation that failed and the index in file_list of the
\* file it was applied to.
RECURSIVE read(_, _)
read(reader, n) ==
    LET failed_read == [flr |-> reader,
                        result |-> [kind |-> "Err", op |-> "read",
                                    index |-> reader.file_index - 1],
                        bytes |-> <<>>]
        failed_open == [flr |-> reader,
                        result |-> [kind |-> "Err", op |-> "open",
                                    index |-> reader.file_index],
                        bytes |-> <<>>]
        sizes == IF reader.file = <<>> THEN {0} ELSE file_read_sizes(reader.file[1], n)
        reads ==
            IF reader.file = <<>> THEN {}
            ELSE {failed_read} \cup
                 {[flr |-> [reader EXCEPT !.file[1].pos = @ + size],
                   result |-> [kind |-> "Ok", size |-> size],
                   bytes |-> SubSeq(reader.file[1].content, reader.file[1].pos + 1,
                                    reader.file[1].pos + size)] :
                      size \in sizes \ {0}}
        opens ==
            IF 0 \notin sizes
            THEN {}
            ELSE IF reader.file_index >= Len(reader.file_list)
                 THEN {[flr |-> reader, result |-> [kind |-> "Ok", size |-> 0], bytes |-> <<>>]}
                 ELSE {failed_open} \cup
                      read([reader EXCEPT
                               !.file = <<file_open(reader.file_list[reader.file_index + 1])>>,
                               !.file_index = @ + 1], n)
    IN  reads \cup opens

InitReader ==
    /\ \E file_list \in FileLists : flr = flr_new(file_list)
    /\ delivered = <<>>
    /\ readReturn = <<>>
    /\ left = PoolTelegram(0)
    /\ right = PoolTelegram(0)
    /\ eqResult = <<>>
    /\ cmpResult = <<>>
    /\ idResult = <<>>
    /\ data_set = NoDataSet
    /\ origin = "none"
    /\ onlyAddData = TRUE
    /\ pc = "idle"
    /\ lastOp = NoOp
    /\ prev = NoDataSet
    /\ inserted = <<>>
    /\ NoSpecification
    /\ NoFieldSpec
    /\ NoCall

ReadReturned(n, outcome) ==
    /\ flr' = outcome.flr
    /\ delivered' = delivered \o outcome.bytes
    /\ readReturn' = <<[buf_len |-> n, result |-> outcome.result,
                         file_index |-> flr.file_index]>>
    /\ UNCHANGED dataVars
    /\ UNCHANGED setVars
    /\ UNCHANGED cacheVars
    /\ UNCHANGED rawVars
    /\ UNCHANGED borrowVars

\* read returns Ok(size)
Read ==
    \E n \in 0..MaxBufSize :
        \E outcome \in read(flr, n) :
            /\ outcome.result.kind = "Ok"
            /\ ReadReturned(n, outcome)

\* read returns the error of File::open or File::read
ReadFails ==
    \E n \in 0..MaxBufSize :
        \E outcome \in read(flr, n) :
            /\ outcome.result.kind = "Err"
            /\ ReadReturned(n, outcome)

NextReader == Read \/ ReadFails

SpecReader == InitReader /\ [][NextReader]_vars

\* the contents of the files of the list, one after the other
RECURSIVE Concatenation(_)
Concatenation(file_list) ==
    IF file_list = <<>> THEN <<>>
    ELSE Head(file_list) \o Concatenation(Tail(file_list))

\* C27: reading a FileListReader to the end of the stream delivers exactly
\* the concatenation of the contents of the listed files in list order, for
\* every sequence of read calls and buffer sizes: no byte is skipped or
\* duplicated, and read returns 0 only when every file has been delivered
\* (stated for the reads into a non-empty buffer: a read into an empty
\* buffer returns 0 whatever is left).
C27_DeliversConcatenation ==
    /\ IsPrefix(delivered, Concatenation(flr.file_list))
    /\ (/\ readReturn # <<>>
        /\ readReturn[1].buf_len > 0
        /\ readReturn[1].result = [kind |-> "Ok", size |-> 0])
           => delivered = Concatenation(flr.file_list)

(***************************************************************************)
(* The RefCell borrows of Specification::get_device_spec and               *)
(* get_packet_spec, statement by statement.  A Specification is neither    *)
(* Send nor Sync (Rc, RefCell): one call runs at a time.                   *)
(***************************************************************************)
\* the borrow is never released
drop_Leaks(b, cell) == b

\* the RefMut of the cell goes out of scope
drop(b, cell) == [b EXCEPT ![cell] = FALSE]

borrow_mut_OneCell(b, cell) == [panic |-> b.devices \/ b.packets, borrows |-> [b EXCEPT ![cell] = TRUE]]

\* RefCell::borrow_mut panics when the cell is already borrowed
borrow_mut(b, cell) == [panic |-> b[cell], borrows |-> [b EXCEPT ![cell] = TRUE]]

InitBorrow ==
    /\ \E setup \in CacheSetups :
           /\ specification = from_file(setup.language)
           /\ data_set = setup.data_set
    /\ NoCall
    /\ iter = <<fields_in_data_set>>
    /\ returned = NoResult
    /\ before = [spec |-> specification, result |-> NoResult]
    /\ repeated = FALSE
    /\ yielded = <<>>
    /\ origin = "from_data"
    /\ onlyAddData = TRUE
    /\ pc = "idle"
    /\ lastOp = NoOp
    /\ prev = data_set
    /\ inserted = <<>>
    /\ left = PoolTelegram(0)
    /\ right = PoolTelegram(0)
    /\ eqResult = <<>>
    /\ cmpResult = <<>>
    /\ idResult = <<>>
    /\ NoFieldSpec
    /\ NoReader

\* get_packet_spec returns the PacketSpec at index packet to its caller:
\* next() goes on with it, the owner's call is over
returned_to(caller, packet) ==
    IF caller = "next"
    THEN <<[op |-> "next", caller |-> "owner", step |-> "resume", packet |-> packet]>>
    ELSE <<>>

\* a statement of the running call was executed
Stepped(after, b, c, res, state) ==
    /\ specification' = after
    /\ borrows' = b
    /\ call' = c
    /\ returned' = res
    /\ pc' = state
    /\ UNCHANGED <<iter, before, repeated, yielded>>
    /\ UNCHANGED <<data_set, origin, onlyAddData, lastOp, prev, inserted>>
    /\ UNCHANGED dataVars
    /\ UNCHANGED rawVars
    /\ UNCHANGED readerVars

\* line 366: get_device_spec is called and borrows the device cache
DeviceBorrowDevices ==
    /\ pc \notin {"panicked", "slice_panicked"}
    /\ call = <<>>
    /\ \E q \in DeviceQueries :
           /\ Len(get_device_spec(specification, q.channel, q.self_address,
                                  q.peer_address).devices) <= MaxDevices
           /\ LET b == borrow_mut(borrows, "devices")
              IN  IF b.panic
                  THEN Stepped(specification, borrows, call, NoResult, "panicked")
                  ELSE Stepped(specification, b.borrows,
                               <<[op |-> "get_device_spec", caller |-> "owner", q |-> q,
                                  step |-> "lookup"]>>,
                               NoResult, "idle")

\* line 367, and the borrow is dropped when the call returns
DeviceLookup ==
    /\ call # <<>>
    /\ call[1].op = "get_device_spec"
    /\ call[1].step = "lookup"
    /\ LET got == get_or_create_cached_device_spec(specification.devices, call[1].q.channel,
                                                   call[1].q.self_address,
                                                   call[1].q.peer_address,
                                                   specification.language)
       IN  Stepped([specification EXCEPT !.devices = got.devices],
                   drop(borrows, "devices"), <<>>,
                   [kind |-> "device", index |-> got.device], "returned")

\* line 372: get_packet_spec is called and borrows the device cache
PacketBorrowDevices ==
    /\ pc \notin {"panicked", "slice_panicked"}
    /\ call = <<>>
    /\ \E q \in PacketQueries :
           /\ LET got == get_packet_spec(specification, q.channel, q.destination_address,
                                         q.source_address, q.command)
              IN  Len(got.devices) <= MaxDevices /\ Len(got.packets) <= MaxPackets
           /\ LET b == borrow_mut(borrows, "devices")
              IN  IF b.panic
                  THEN Stepped(specification, borrows, call, NoResult, "panicked")
                  ELSE Stepped(specification, b.borrows,
                               <<[op |-> "get_packet_spec", caller |-> "owner", q |-> q,
                                  step |-> "borrow_packets"]>>,
                               NoResult, "idle")

\* line 373: it borrows the packet cache
PacketBorrowPackets ==
    /\ call # <<>>
    /\ call[1].step = "borrow_packets"
    /\ LET b == borrow_mut(borrows, "packets")
       IN  IF b.panic
           THEN Stepped(specification, borrows, call, NoResult, "panicked")
           ELSE Stepped(specification, b.borrows, <<[call[1] EXCEPT !.step = "cached"]>>,
                        NoResult, "idle")

\* lines 238-240: the cached PacketSpec is returned; both borrows are dropped
PacketCached ==
    /\ call # <<>>
    /\ call[1].step = "cached"
    /\ LET q == call[1].q
           found == get_cached_packet_spec(specification.packets, q.channel,
                                           q.destination_address, q.source_address, q.command)
       IN  IF found # 0
           THEN Stepped(specification, drop(drop(borrows, "packets"), "devices"),
                        returned_to(call[1].caller, found),
                        [kind |-> "packet", index |-> found], "returned")
           ELSE Stepped(specification, borrows, <<[call[1] EXCEPT !.step = "destination"]>>,
                        NoResult, "idle")

\* line 242: the destination device is resolved in the borrowed device cache
PacketResolveDestination ==
    /\ call # <<>>
    /\ call[1].step = "destination"
    /\ LET q == call[1].q
           got == get_or_create_cached_device_spec(specification.devices, q.channel,
                                                   q.destination_address, q.source_address,
                                                   specification.language)
       IN  Stepped([specification EXCEPT !.devices = got.devices], borrows,
                   <<[op |-> "get_packet_spec", caller |-> call[1].caller, q |-> q,
                      step |-> "source",
                      destination_device |-> got.device]>>,
                   NoResult, "idle")

\* line 243: the source device is resolved
PacketResolveSource ==
    /\ call # <<>>
    /\ call[1].step = "source"
    /\ LET q == call[1].q
           got == get_or_create_cached_device_spec(specification.devices, q.channel,
                                                   q.source_address, q.destination_address,
                                                   specification.language)
       IN  Stepped([specification EXCEPT !.devices = got.devices], borrows,
                   <<[op |-> "get_packet_spec", caller |-> call[1].caller, q |-> q,
                      step |-> "push",
                      destination_device |-> call[1].destination_device,
                      source_device |-> got.device]>>,
                   NoResult, "idle")

\* lines 245-300: the PacketSpec is built, pushed and returned; both borrows
\* are dropped
PacketPush ==
    /\ call # <<>>
    /\ call[1].step = "push"
    /\ LET q == call[1].q
           pushed == push_packet_spec(
                         specification.packets,
                         new_packet_spec(q.channel, q.destination_address, q.source_address,
                                         q.command, specification.devices,
                                         call[1].destination_device, call[1].source_device,
                                         find_packet_template(q.destination_address,
                                                              q.source_address, q.command),
                                         specification.language),
                         specification.devices)
       IN  Stepped([specification EXCEPT !.packets = pushed.packets],
                   drop(drop(borrows, "packets"), "devices"),
                   returned_to(call[1].caller, pushed.packet),
                   [kind |-> "packet", index |-> pushed.packet], "returned")

\* a statement of next() outside get_packet_spec was executed
Resumed(it, state) ==
    /\ iter' = <<it>>
    /\ call' = <<>>
    /\ pc' = state
    /\ UNCHANGED <<specification, borrows, returned, before, repeated, yielded>>
    /\ UNCHANGED <<data_set, origin, onlyAddData, lastOp, prev, inserted>>
    /\ UNCHANGED dataVars
    /\ UNCHANGED rawVars
    /\ UNCHANGED readerVars

\* lines 502-503 and 526-527: next() passes over a Data that is no Packet
NextSkip ==
    /\ pc \notin {"panicked", "slice_panicked"}
    /\ call = <<>>
    /\ iter[1].data_index < Len(data_set.set)
    /\ data_set.set[iter[1].data_index + 1].variant # "Packet"
    /\ Resumed([data_index |-> iter[1].data_index + 1, field_index |-> 0], "idle")

\* line 504: next() calls get_packet_spec for the Packet at data_index
NextGetPacketSpec ==
    /\ pc \notin {"panicked", "slice_panicked"}
    /\ call = <<>>
    /\ iter[1].data_index < Len(data_set.set)
    /\ LET data == data_set.set[iter[1].data_index + 1]
       IN  /\ data.variant = "Packet"
           /\ LET got == get_packet_spec(specification, data.header.channel,
                                         data.header.destination_address,
                                         data.header.source_address, data.command)
              IN  Len(got.devices) <= MaxDevices /\ Len(got.packets) <= MaxPackets
           /\ LET b == borrow_mut(borrows, "devices")
              IN  IF b.panic
                  THEN Stepped(specification, borrows, call, NoResult, "panicked")
                  ELSE Stepped(specification, b.borrows,
                               <<[op |-> "get_packet_spec", caller |-> "next",
                                  q |-> [channel |-> data.header.channel,
                                         destination_address |-> data.header.destination_address,
                                         source_address |-> data.header.source_address,
                                         command |-> data.command],
                                  step |-> "borrow_packets"]>>,
                               NoResult, "idle")

\* lines 505-527: next() goes on with the PacketSpec: it returns the next
\* field, fails on the slice of frame_data, or moves to the next Data
NextResume ==
    /\ call # <<>>
    /\ call[1].step = "resume"
    /\ IF iter[1].field_index < Len(specification.packets[call[1].packet].fields)
       THEN Resumed([iter[1] EXCEPT !.field_index = @ + 1],
                    IF data_set.set[iter[1].data_index + 1].frame_count * 4 > 508
                    THEN "slice_panicked" ELSE "returned")
       ELSE Resumed([data_index |-> iter[1].data_index + 1, field_index |-> 0], "idle")

NextBorrow ==
    \/ DeviceBorrowDevices
    \/ DeviceLookup
    \/ PacketBorrowDevices
    \/ PacketBorrowPackets
    \/ PacketCached
    \/ PacketResolveDestination
    \/ PacketResolveSource
    \/ PacketPush
    \/ NextSkip
    \/ NextGetPacketSpec
    \/ NextResume

SpecBorrow == InitBorrow /\ [][NextBorrow]_vars

\* get_packet_spec is resolving the destination or the source device
ResolvingDevices == call # <<>> /\ call[1].step \in {"destination", "source"}

VariantMismatch(set) ==
    \E i, j \in 1..Len(set) :
        HeaderTuple(set[i]) = HeaderTuple(set[j]) /\ set[i].variant # set[j].variant

\* every adjacent pair of set is in non-descending order
NonDescending(set) ==
    \A i \in 1..(Len(set) - 1) : partial_cmp(set[i], set[i + 1]) \in {"Less", "Equal"}

\* C29 as stated: sort() completes without panicking for every DataSet
\* reachable through from_data, add_data and add_data_set, and afterwards
\* every adjacent pair of members is in non-descending order.
C29_SortNeverPanics ==
    lastOp.op = "sort" => (pc = "returned" /\ NonDescending(data_set.set))

\* C29, amended: sort() completes without panicking for every DataSet in
\* which no two members share the header tuple and differ in variant, and
\* after a sort() that completed every adjacent pair of members is in
\* non-descending order; a sort() that panics leaves a DataSet with two such
\* members.
C29_SortCompletesWithoutVariantMismatch ==
    lastOp.op = "sort" =>
        /\ ~VariantMismatch(prev.set) => pc = "returned"
        /\ pc = "returned" =>
               /\ NonDescending(data_set.set)
               /\ data_set.set \in Rearrangements(prev.set)
               /\ data_set.timestamp = prev.timestamp

C29_Witness ==
    /\ lastOp.op = "sort"
    /\ pc = "returned"
    /\ prev.set = <<PoolTelegram(0), PoolPacket(1, 32, 0), PoolPacket(1, 16, 0)>>
    /\ ~WellFormed(prev.set[2])
    /\ ~VariantMismatch(prev.set)
    /\ data_set.set = <<PoolPacket(1, 16, 0), PoolPacket(1, 32, 0), PoolTelegram(0)>>

\* C30: add_data overwrites unconditionally: after any sequence of add_data
\* calls on an initially empty DataSet, the member stored for an identity is
\* the last Data inserted with that identity, payload and header.timestamp
\* included, and its index is the index at which the identity was first
\* inserted (the identities are recorded in the order of their first
\* insertion).
C30_LastInsertedAtFirstIndex ==
    (origin = "new" /\ onlyAddData) =>
        data_set.set = [i \in 1..Len(inserted) |-> inserted[i].last]

C30_Witness ==
    /\ origin = "new"
    /\ onlyAddData
    /\ pc = "returned"
    /\ lastOp = [op |-> "add_data", data |-> PoolPacket(1, 16, 0)]
    /\ prev.set = <<PoolPacket(2, 16, 1), PoolTelegram(0)>>
    /\ data_set.set = <<PoolPacket(1, 16, 0), PoolTelegram(0)>>
    /\ data_set.timestamp = prev.timestamp

(***************************************************************************)
(* Packet-cache misses.                                                    *)
(***************************************************************************)
\* the last call was a get_packet_spec whose key was not in the packet cache
PacketCacheMiss ==
    /\ lastOp.op = "get_packet_spec"
    /\ \A i \in 1..Len(before.spec.packets) :
           PacketKey(before.spec.packets[i])
               # <<lastOp.channel, lastOp.destination_address, lastOp.source_address,
                   lastOp.command>>

\* the device entry at index i is one a lookup of self_address with the peer
\* peer_address on the channel may return
ResolvedDevice(i, channel, self_address, peer_address) ==
    /\ i \in 1..Len(specification.devices)
    /\ specification.devices[i].channel = channel
    /\ specification.devices[i].self_address = self_address
    /\ specification.devices[i].peer_address \in {<<>>, <<peer_address>>}
    /\ i = MinOf(DeviceMatches(specification.devices,
                               [channel |-> channel, self_address |-> self_address,
                                peer_address |-> peer_address]))

\* C31: on a packet-cache miss get_packet_spec resolves the destination device
\* with peer = source_address and the source device with peer =
\* destination_address, adds exactly one packet entry and at most two device
\* entries, and the destination_device and source_device of the new
\* PacketSpec are device-cache entries with the packet's channel, the
\* respective address as self_address and a peer_address that is None or the
\* packet's other address.
C31_MissAddsOnePacketAndItsDevices ==
    PacketCacheMiss =>
        LET added == specification.packets[Len(specification.packets)]
        IN  /\ Len(specification.packets) = Len(before.spec.packets) + 1
            /\ returned = [kind |-> "packet", index |-> Len(specification.packets)]
            /\ PacketKey(added) = <<lastOp.channel, lastOp.destination_address,
                                    lastOp.source_address, lastOp.command>>
            /\ Len(specification.devices) - Len(before.spec.devices) \in 0..2
            /\ ResolvedDevice(added.destination_device, lastOp.channel,
                              lastOp.destination_address, lastOp.source_address)
            /\ ResolvedDevice(added.source_device, lastOp.channel,
                              lastOp.source_address, lastOp.destination_address)

C31_Witness ==
    /\ PacketCacheMiss
    /\ lastOp.destination_address = 21
    /\ Len(before.spec.devices) = 1
    /\ Len(specification.devices) = 2
    /\ Len(specification.packets) = 1
    /\ specification.devices[specification.packets[1].destination_device].peer_address
           = <<32305>>
    /\ specification.devices[specification.packets[1].source_device].peer_address = <<>>
    /\ specification.packets[1].source_device = 1

\* the DeviceSpec a lookup with the arguments of op returns on a
\* Specification on which no lookup was made before
FreshDeviceSpec(op) ==
    LET got == get_device_spec(from_file(specification.language), op.channel,
                               op.self_address, op.peer_address)
    IN  got.devices[got.device]

NoneEntryCached(op) ==
    \E i \in 1..Len(before.spec.devices) :
        /\ before.spec.devices[i].channel = op.channel
        /\ before.spec.devices[i].self_address = op.self_address
        /\ before.spec.devices[i].peer_address = <<>>

C33_NoBorrowPanic ==
    /\ pc # "panicked"
    /\ (call = <<>> \/ call[1].op = "next") =>
           borrows = [devices |-> FALSE, packets |-> FALSE]

\* next() got the newest PacketSpec back from get_packet_spec for the third
\* Data of the slice, three devices are cached, and no cache is borrowed
C33_Witness ==
    /\ call # <<>>
    /\ call[1].op = "next"
    /\ call[1].packet = Len(specification.packets)
    /\ Len(specification.devices) = 3
    /\ iter[1].data_index = 2
    /\ borrows = [devices |-> FALSE, packets |-> FALSE]
    /\ pc = "returned"

\* the number k of fields of the Packet members of the data slice
TotalFields == Len(PairsFrom(specification, data_set.set, 0, 0))

\* what C34 says of the state after a call: next() returned (Some or None),
\* at most k items were returned, exactly k when None is returned, a call
\* after a None returns None again, and data_index is at most n
C34_ReturnsAndCounts ==
    /\ lastOp.op = "next" => pc = "returned" /\ returned.kind = "item"
    /\ Len(yielded) <= TotalFields
    /\ IteratorExhausted => Len(yielded) = TotalFields
    /\ (lastOp.op = "next" /\ repeated /\ before.result = [kind |-> "item", item |-> <<>>]) =>
           returned = [kind |-> "item", item |-> <<>>]
    /\ iter # <<>> => iter[1].data_index <= Len(data_set.set)

\* what C34 says of a call: next() does not lower data_index
C34_DataIndexGrows ==
    (iter # <<>> /\ lastOp'.op = "next") => iter'[1].data_index >= iter[1].data_index

\* C34: the field iterator terminates: over a slice of n Data whose Packets
\* have k fields in total every next() call returns, Some exactly k times and
\* then None, every later call returns None again, and data_index never
\* decreases nor exceeds n.
C34_IteratorTerminates == []C34_ReturnsAndCounts /\ [][C34_DataIndexGrows]_vars

\* C35: for every Packet of the data slice, whatever its frame_count, next()
\* slices frame_data[0 .. frame_count * 4] within the 508 bytes of
\* frame_data: no call of next() fails with an out-of-range slice.
C35_SliceWithinFrameData == pc # "panicked"

\* C36: for every DataSet built from new() by any sequence of add_data,
\* add_data_set, remove_data_older_than and sort, DataSet.timestamp is not
\* below the header timestamp of any current member.
C36_TimestampCoversMembers ==
    origin = "new" =>
        \A i \in 1..Len(data_set.set) :
            data_set.timestamp >= as_header(data_set.set[i]).timestamp

\* add_data_set merged a DataSet whose own timestamp was below that of one of
\* its members into a set built from new(), and the member's timestamp
\* raised the timestamp of the set
C36_Witness ==
    /\ origin = "new"
    /\ lastOp.op = "add_data_set"
    /\ \E i \in 1..Len(lastOp.other.set) :
           /\ as_header(lastOp.other.set[i]).timestamp > lastOp.other.timestamp
           /\ as_header(lastOp.other.set[i]).timestamp > prev.timestamp
           /\ data_set.timestamp = as_header(lastOp.other.set[i]).timestamp
    /\ data_set.set # <<>>

\* Option<Ordering> with the Ordering reversed
Reverse(ordering) ==
    CASE ordering = "Less" -> "Greater"
      [] ordering = "Greater" -> "Less"
      [] OTHER -> ordering

\* C37: eq and partial_cmp agree: for all Data a and b, a.eq(b) holds exactly
\* when a.partial_cmp(b) is Equal, and partial_cmp(a, b) is the reverse of
\* partial_cmp(b, a).
C37_EqAgreesWithPartialCmp ==
    /\ (eqResult # <<>> /\ cmpResult # <<>>) => (eqResult[1] <=> cmpResult[1] = "Equal")
    /\ cmpResult # <<>> => cmpResult[1] = Reverse(partial_cmp(right, left))

\* two Datagrams that differ in param16 and param32 only, with a command
\* other than 0x0900: eq returned true and partial_cmp returned Equal
C37_Witness ==
    /\ eqResult = <<TRUE>>
    /\ cmpResult = <<"Equal">>
    /\ left.variant = "Datagram"
    /\ left.command = 1280
    /\ left.param16 # right.param16
    /\ left.param32 # right.param32

\* C38: read returns after opening at most the files not yet opened:
\* file_index only increases over a call and never exceeds the length of the
\* list, at most one file is held open (the one before file_index), and a
\* failed open or read returns the error without advancing file_index, so
\* that the next read retries the same file: after a failed open file_index
\* still names the file that could not be opened, after a failed read the
\* file read is still the open one.
C38_ReadOpensEachFileOnce ==
    /\ flr.file_index <= Len(flr.file_list)
    /\ Len(flr.file) <= 1
    /\ flr.file # <<>> =>
           /\ flr.file_index >= 1
           /\ flr.file[1].content = flr.file_list[flr.file_index]
    /\ readReturn # <<>> =>
           /\ readReturn[1].file_index <= flr.file_index
           /\ (readReturn[1].result.kind = "Err" /\ readReturn[1].result.op = "open") =>
                  /\ flr.file_index = readReturn[1].result.index
                  /\ flr.file_index < Len(flr.file_list)
           /\ (readReturn[1].result.kind = "Err" /\ readReturn[1].result.op = "read") =>
                  /\ flr.file # <<>>
                  /\ flr.file_index = readReturn[1].result.index + 1

\* the first file was delivered by earlier reads; this read found it at its
\* end and failed to open the second file, which is still the next to open
C38_Witness ==
    /\ readReturn # <<>>
    /\ readReturn[1].buf_len > 0
    /\ readReturn[1].result = [kind |-> "Err", op |-> "open", index |-> 1]
    /\ readReturn[1].file_index = 1
    /\ flr.file_index = 1
    /\ Len(flr.file_list) = 2
    /\ delivered = flr.file_list[1]
    /\ delivered # <<>>
====
